---------------------------- MODULE Spec2Model ----------------------------
(***************************************************************************)
(* A model of the HS / HTS classification engine of src/app.py: the        *)
(* Marketplace Resolver (_classify_by_ebay_data), the Context Detector     *)
(* (_detect_context), the Phrase Disambiguator (_eval_phrase_context), the *)
(* Rule Scorer (_score_rule), the AI Arbitrator (_call_claude_api) and the *)
(* fusion and ranking of classify_product.                                 *)
(*                                                                         *)
(* Conventions.  Python str values are TLA+ strings; a character outside   *)
(* ASCII is written ^ddddd, the decimal code point.  Python floats are     *)
(* integers counting ten-thousandths (1.0 is 10000, 0.05 is 500), which    *)
(* represents every score the code can produce exactly.  None is the empty *)
(* tuple for an Optional tuple or list and the empty string for an         *)
(* Optional[str]; the code only ever tests these for truthiness.           *)
(***************************************************************************)
EXTENDS Integers, Sequences, FiniteSets, TLC

VARIABLES
  secrets_key,           \* st.secrets["ANTHROPIC_API_KEY"] ("" when absent)
  environ_key,           \* os.environ["ANTHROPIC_API_KEY"] ("" when absent)
  ls_anthropic_api_key,  \* st.session_state["_ls_anthropic_api_key"] ("" when absent)
  db_anthropic_api_key,  \* get_setting("anthropic_api_key") ("" when absent)
  re_cache,              \* _SHORT_KW_BOUNDARY_RE_CACHE
  claude_api_calls,      \* st.session_state.claude_api_calls
  request,               \* arguments of the latest classify_product call
  used_api_key,          \* the api_key that call read ("" for None)
  ai_reply,              \* what the arbitrator endpoint answered in that call
  result,                \* the list that call returned
  prev,                  \* an earlier call made without arbitrator: its arguments and its result
  rs_input,              \* arguments of a _classify_by_ebay_data call
  rs_result,             \* its return value
  rs_pc,                 \* "call" before the call, "done" after it
  pl_request,            \* arguments of a classify_product call made without arbitrator
  pl_out,                \* its local variables at return
  pl_pc,                 \* "call" before the call, "done" after it
  mk_input,              \* <<keyword, text>> of the latest keyword test, None before the first
  mk_matched,            \* what _match_keyword returned for it
  mk_pc,                 \* "idle" before the first keyword test, "done" after one
  sc_input,              \* arguments of a _detect_relevant_chapters call
  sc_out,                \* its chapter_scores and its return value
  sc_pc,                 \* "call" before the call, "done" after it
  ebay_credentials,      \* TRUE when _get_ebay_client_credentials finds a client id and secret
  ebay_token,            \* st.session_state["_ebay_token"]: a token number, 0 for none
  ebay_token_expires,    \* st.session_state["_ebay_token_expires"], seconds (0 when absent)
  tk_now,                \* time.time(), seconds
  tk_issued,             \* tokens the endpoint issued: issue time, expires_in, expiry cached for it (-1: none yet)
  tk_callers,            \* callers of _get_ebay_oauth_token: position and local variables
  kp_input,              \* a rule, a text and is_auto for the keyword loop of _score_rule
  kp_out,                \* the score after the loop and what _eval_phrase_context returned in it
  kp_pc,                 \* "call" before the loop, "done" after it
  st_results,            \* st.session_state.results, the candidates on display
  st_pending_save,       \* st.session_state.pending_save, {} as << >>
  st_selected_candidate, \* st.session_state.selected_candidate, None or an index from 0
  st_scraped_info,       \* st.session_state.scraped_info, {} as << >>
  history,               \* the rows of table history, in id order
  edit_log,              \* the rows of table edit_log, in id order
  sqlite_sequence,       \* the last id AUTOINCREMENT gave out in each table
  ui_shown_run,          \* product name and URL of the run that set st_results, None before one
  ui_last,               \* what the last handler was and what it was given
  ls_ebay_client,        \* st.session_state _ls_ebay_client_id and _ls_ebay_client_secret, "" for none
  db_ebay_client,        \* app_settings ebay_client_id and ebay_client_secret, "" for none
  ebay_preconfigured,    \* TRUE when secrets or environment hold EBAY_CLIENT_ID and _SECRET
  ls_settings_pin,       \* st.session_state["_ls_settings_pin"], "" for none
  ls_keys_loaded,        \* "_ls_keys_loaded" in st.session_state
  local_storage,         \* the browser's localStorage: hts_anthropic_api_key, the eBay pair, hts_settings_pin
  pin_last               \* the last settings handler and the PIN it was given

vars ==
  << secrets_key, environ_key, ls_anthropic_api_key, db_anthropic_api_key,
     re_cache, claude_api_calls, request, used_api_key, ai_reply, result, prev,
     rs_input, rs_result, rs_pc, pl_request, pl_out, pl_pc,
     mk_input, mk_matched, mk_pc, sc_input, sc_out, sc_pc,
     ebay_credentials, ebay_token, ebay_token_expires, tk_now, tk_issued, tk_callers,
     kp_input, kp_out, kp_pc,
     st_results, st_pending_save, st_selected_candidate, st_scraped_info, history, edit_log,
     sqlite_sequence, ui_shown_run, ui_last,
     ls_ebay_client, db_ebay_client, ebay_preconfigured, ls_settings_pin, ls_keys_loaded,
     local_storage, pin_last >>

None == << >>

F(n) == n * 10000

\* The rule corpus, in source order (a Python list of dicts).  Characters outside ASCII are
\* written as ^ followed by the five-digit decimal code point.
CLASSIFICATION_RULES ==
  <<
    [ keywords |->
        <<
          "t-shirt", "t^12471^12515^12484", "^12486^12451^12540^12471^12515^12484", "tee",
          "^12471^12531^12464^12524^12483^12488"
        >>,
      category |-> "^34915^26009^21697^65288^12491^12483^12488^65289",
      material |-> "^32191 / ^12509^12522^12456^12473^12486^12523",
      usage |-> "^26085^24120^30528^29992",
      hs6 |-> "6109.10",
      hts10 |-> "6109.10.0012",
      jp_hs9 |-> "6109.10.900",
      chapter |-> "Chapter 61",
      reason |->
        "^32191^35069T^12471^12515^12484^12539^12471^12531^12464^12524^12483^12488^39006^12290HTS 6109.10.00 stat.12(^30007^23376^29992^32191^35069)^12290JP: 6109.10-900(^12381^12398^20182^12398^12418^12398)^12290^21512^25104^32330^32173^35069^123996109.90^12290" ],
    [ keywords |->
        <<
          "sweater", "^12475^12540^12479^12540", "^12491^12483^12488", "knit", "pullover",
          "^12503^12523^12458^12540^12496^12540", "cardigan",
          "^12459^12540^12487^12451^12460^12531", "hoodie", "^12497^12540^12459^12540",
          "^12501^12540^12487^12451^12540", "^12505^12473^12488", "vest"
        >>,
      category |-> "^34915^26009^21697^65288^12491^12483^12488^12454^12455^12450^65289",
      material |-> "^32191 / ^12454^12540^12523 / ^12450^12463^12522^12523",
      usage |-> "^26085^24120^30528^29992^12539^38450^23506",
      hs6 |-> "6110.20",
      hts10 |-> "6110.20.2075",
      jp_hs9 |-> "6110.20.000",
      chapter |-> "Chapter 61",
      reason |->
        "^12472^12515^12540^12472^12540^12289^12503^12523^12458^12540^12496^12540^12289^12459^12540^12487^12451^12460^12531^31561^65288^12513^12522^12516^12473^32232^12415^65289^12290^32191^35069=6110.20^12289^32650^27611^35069=6110.11^12289^21512^25104^32330^32173^35069=6110.30^12290" ],
    [ keywords |->
        <<
          "underwear", "^19979^30528", "^12521^12531^12472^12455^12522^12540", "lingerie",
          "^12502^12521", "bra", "^12497^12531^12486^12451", "panty",
          "^12508^12463^12469^12540", "boxer", "^12502^12522^12540^12501", "brief"
        >>,
      category |-> "^34915^26009^21697^65288^19979^30528^65289",
      material |-> "^32191 / ^12490^12452^12525^12531",
      usage |-> "^30528^29992",
      hs6 |-> "6108.21",
      hts10 |-> "6108.21.0010",
      jp_hs9 |-> "6108.21.000",
      chapter |-> "Chapter 61",
      reason |->
        "^22899^23376^29992^12502^12522^12540^12501^12539^12497^12531^12486^12451^65288^12513^12522^12516^12473^32232^12415^65289^12290^32191^35069=6108.21^12289^20154^36896^32330^32173^35069=6108.22^12290^30007^23376^29992^123996107^12290" ],
    [ keywords |->
        <<
          "socks", "^38772^19979", "^12477^12483^12463^12473", "stocking",
          "^12473^12488^12483^12461^12531^12464", "^12479^12452^12484", "tights"
        >>,
      category |-> "^34915^26009^21697^65288^38772^19979^39006^65289",
      material |-> "^32191 / ^12490^12452^12525^12531",
      usage |-> "^30528^29992",
      hs6 |-> "6115.95",
      hts10 |-> "6115.95.9010",
      jp_hs9 |-> "6115.95.000",
      chapter |-> "Chapter 61",
      reason |->
        "^38772^19979^39006^65288^12513^12522^12516^12473^32232^12415^65289^12290^32191^35069=6115.95^12289^21512^25104^32330^32173^35069=6115.96^12290^12497^12531^12486^12451^12473^12488^12483^12461^12531^12464=6115.21/22^12290" ],
    [ keywords |->
        <<
          "swimwear", "^27700^30528", "^12499^12461^12491", "bikini", "swim"
        >>,
      category |-> "^34915^26009^21697^65288^27700^30528^65289",
      material |-> "^12490^12452^12525^12531 / ^12509^12522^12456^12473^12486^12523",
      usage |-> "^27700^27891^12539^12524^12472^12515^12540",
      hs6 |-> "6112.41",
      hts10 |-> "6112.41.0010",
      jp_hs9 |-> "6112.41.000",
      chapter |-> "Chapter 61",
      reason |->
        "^22899^23376^29992^27700^30528^65288^12513^12522^12516^12473^32232^12415^65289^12290^21512^25104^32330^32173^35069=6112.41^12290^30007^23376^29992=6112.31^12290^12488^12521^12483^12463^12473^12540^12484=6112.11/12^12290" ],
    [ keywords |->
        <<
          "shirt", "^12471^12515^12484", "^12502^12521^12454^12473", "blouse", "dress shirt",
          "^12527^12452^12471^12515^12484"
        >>,
      category |-> "^34915^26009^21697^65288^32340^29289^65289",
      material |-> "^32191 / ^12509^12522^12456^12473^12486^12523 / ^28151^32033",
      usage |-> "^26085^24120^30528^29992^12539^12499^12472^12493^12473",
      hs6 |-> "6205.20",
      hts10 |-> "6205.20.2016",
      jp_hs9 |-> "6205.20.000",
      chapter |-> "Chapter 62",
      reason |->
        "^30007^23376^29992^12471^12515^12484^65288^32340^29289^35069^65289^12290^32191^35069=6205.20^12289^20154^36896^32330^32173^35069=6205.30^12290JP: 6205.20-000^12290" ],
    [ keywords |->
        <<
          "jacket", "^12472^12515^12465^12483^12488", "^12502^12524^12470^12540", "blazer",
          "coat", "^12467^12540^12488", "^12450^12454^12479^12540",
          "^12450^12494^12521^12483^12463", "anorak",
          "^12454^12452^12531^12489^12502^12524^12540^12459^12540", "windbreaker"
        >>,
      category |-> "^34915^26009^21697^65288^12450^12454^12479^12540^65289",
      material |-> "^32191 / ^12454^12540^12523 / ^21270^32330",
      usage |-> "^22806^20986^12539^38450^23506",
      hs6 |-> "6201.40",
      hts10 |-> "6201.40.2010",
      jp_hs9 |-> "6201.40.000",
      chapter |-> "Chapter 62",
      reason |->
        "^30007^23376^29992^12458^12540^12496^12540^12467^12540^12488^12539^12450^12494^12521^12483^12463^39006^65288^32340^29289^35069^65289^12290^20154^36896^32330^32173^35069=6201.40^12289^32191^35069=6201.30^12289^32650^27611^35069=6201.20^12290" ],
    [ keywords |->
        <<
          "dress", "^12489^12524^12473", "^12527^12531^12500^12540^12473", "one-piece"
        >>,
      category |-> "^34915^26009^21697^65288^23142^20154^65289",
      material |-> "^12509^12522^12456^12473^12486^12523 / ^32191",
      usage |-> "^26085^24120^30528^29992^12539^12501^12457^12540^12510^12523",
      hs6 |-> "6204.43",
      hts10 |-> "6204.43.4020",
      jp_hs9 |-> "6204.43.000",
      chapter |-> "Chapter 62",
      reason |->
        "^22899^23376^29992^12489^12524^12473^65288^32340^29289^35069^65289^12290^21512^25104^32330^32173^35069=6204.43^12289^32191^35069=6204.42^12290^12473^12540^12484=6204.11-19^12289^12473^12459^12540^12488=6204.51-59^12290" ],
    [ keywords |->
        <<
          "pants", "^12497^12531^12484", "^12474^12508^12531", "trousers", "jeans",
          "^12472^12540^12531^12474", "^12487^12491^12512", "denim",
          "^12481^12494^12497^12531", "chinos", "^12473^12521^12483^12463^12473", "slacks"
        >>,
      category |-> "^34915^26009^21697^65288^12508^12488^12512^12473^65289",
      material |-> "^32191 / ^12487^12491^12512",
      usage |-> "^26085^24120^30528^29992",
      hs6 |-> "6203.42",
      hts10 |-> "6203.42.4011",
      jp_hs9 |-> "6203.42.000",
      chapter |-> "Chapter 62",
      reason |->
        "^30007^23376^29992^12474^12508^12531^12539^12471^12519^12540^12484^65288^32340^29289^35069^65289^12290^32191^35069=6203.42^12289^21512^25104^32330^32173^35069=6203.43^12290^22899^23376^29992=6204.62/63^12290" ],
    [ keywords |->
        <<
          "skirt", "^12473^12459^12540^12488", "^12461^12517^12525^12483^12488"
        >>,
      category |-> "^34915^26009^21697^65288^23142^20154^12508^12488^12512^12473^65289",
      material |-> "^12509^12522^12456^12473^12486^12523 / ^32191",
      usage |-> "^26085^24120^30528^29992",
      hs6 |-> "6204.52",
      hts10 |-> "6204.52.2060",
      jp_hs9 |-> "6204.52.000",
      chapter |-> "Chapter 62",
      reason |->
        "^22899^23376^29992^12473^12459^12540^12488^65288^32340^29289^35069^65289^12290^32191^35069=6204.52^12289^21512^25104^32330^32173^35069=6204.53^12290" ],
    [ keywords |->
        <<
          "bag", "^12496^12483^12464", "^12459^12496^12531", "^38788", "handbag",
          "^12495^12531^12489^12496^12483^12464", "tote", "^12488^12540^12488", "shoulder bag",
          "^12471^12519^12523^12480^12540"
        >>,
      category |-> "^12496^12483^12464^12539^38788",
      material |-> "^38761 / ^21512^25104^30382^38761 / ^12490^12452^12525^12531",
      usage |-> "^25658^34892^12539^21454^32013",
      hs6 |-> "4202.21",
      hts10 |-> "4202.21.6000",
      jp_hs9 |-> "4202.21.000",
      chapter |-> "Chapter 42",
      reason |->
        "^12495^12531^12489^12496^12483^12464^39006^12290^22806^38754^12364^38761^35069=4202.21^12289^12503^12521^12473^12481^12483^12463^12471^12540^12488^35069^21448^12399^32033^32340^29992^32330^32173^35069=4202.22^12290JP: 4202.21-000(^22806^38754^12364^38761^35069^21448^12399^12467^12531^12509^12472^12471^12519^12531^12524^12470^12540^35069)^12290" ],
    [ keywords |->
        <<
          "wallet", "^36001^24067", "^12454^12457^12524^12483^12488", "purse",
          "^38263^36001^24067", "^20108^12388^25240^12426",
          "^12467^12452^12531^12465^12540^12473"
        >>,
      category |-> "^38761^23567^29289",
      material |-> "^38761 / ^21512^25104^30382^38761",
      usage |-> "^37329^37549^12539^12459^12540^12489^21454^32013",
      hs6 |-> "4202.31",
      hts10 |-> "4202.31.6000",
      jp_hs9 |-> "4202.31.000",
      chapter |-> "Chapter 42",
      reason |->
        "^12509^12465^12483^12488^21448^12399^12495^12531^12489^12496^12483^12464^12395^25658^24111^12377^12427^35069^21697^12290^38761^35069=4202.31^12289^12503^12521^12473^12481^12483^12463^12539^32330^32173^35069=4202.32^12290" ],
    [ keywords |->
        <<
          "backpack", "^12522^12517^12483^12463", "^12496^12483^12463^12497^12483^12463",
          "rucksack", "^12487^12452^12497^12483^12463"
        >>,
      category |-> "^12496^12483^12464^65288^12522^12517^12483^12463^65289",
      material |-> "^12490^12452^12525^12531 / ^12509^12522^12456^12473^12486^12523",
      usage |-> "^25658^34892^12539^36890^21220^36890^23398",
      hs6 |-> "4202.92",
      hts10 |-> "4202.92.3031",
      jp_hs9 |-> "4202.92.000",
      chapter |-> "Chapter 42",
      reason |->
        "^22806^38754^12364^12503^12521^12473^12481^12483^12463^12471^12540^12488^35069^21448^12399^32033^32340^29992^32330^32173^35069^12398^12496^12483^12464^39006=4202.92^12290JP: 4202.92-000^12290" ],
    [ keywords |->
        <<
          "suitcase", "^12473^12540^12484^12465^12540^12473", "^12461^12515^12522^12540",
          "luggage", "^12488^12521^12531^12463", "carry-on"
        >>,
      category |-> "^26053^34892^29992^38788",
      material |-> "^12503^12521^12473^12481^12483^12463 / ^37329^23646",
      usage |-> "^26053^34892^12539^20986^24373",
      hs6 |-> "4202.12",
      hts10 |-> "4202.12.8070",
      jp_hs9 |-> "4202.12.000",
      chapter |-> "Chapter 42",
      reason |->
        "^12488^12521^12531^12463^12539^12473^12540^12484^12465^12540^12473^39006^12290^22806^38754^12364^12503^12521^12473^12481^12483^12463^21448^12399^32033^32340^29992^32330^32173^35069=4202.12^12289^38761^35069=4202.11^12290" ],
    [ keywords |->
        <<
          "phone case", "^12473^12510^12507^12465^12540^12473", "^12465^12540^12473", "case",
          "^12459^12496^12540", "cover", "iphone case"
        >>,
      category |-> "^12465^12540^12473^12539^12459^12496^12540",
      material |-> "^12503^12521^12473^12481^12483^12463 / ^12471^12522^12467^12531 / ^38761",
      usage |-> "^27231^22120^20445^35703",
      hs6 |-> "4202.99",
      hts10 |-> "4202.99.9000",
      jp_hs9 |-> "4202.99.000",
      chapter |-> "Chapter 42",
      reason |->
        "^25658^24111^38651^35441^12465^12540^12473^31561^12398^23481^22120^12290^12381^12398^20182^12398^26448^26009=4202.99^12290^38761^35069=4202.91^12289^12503^12521^12473^12481^12483^12463^12539^32330^32173^35069=4202.92^12290" ],
    [ keywords |->
        <<
          "shoes", "^38772", "^12471^12517^12540^12474", "sneakers",
          "^12473^12491^12540^12459^12540", "footwear", "^12502^12540^12484", "boots",
          "^12469^12531^12480^12523", "sandals",
          "^12488^12524^12540^12491^12531^12464^12471^12517^12540^12474", "running shoes",
          "^12521^12531^12491^12531^12464^12471^12517^12540^12474", "air max", "ultraboost",
          "jordan", "yeezy", "dunk", "chuck taylor", "all star", "rs-x", "gel-", "574", "990",
          "993", "2002r", "air force", "stan smith", "superstar", "old skool",
          "classic leather", "club c", "suede", "new balance", "asics", "skechers", "crocs",
          "birkenstock", "timberland", "dr. martens", "ugg"
        >>,
      category |-> "^23653^29289",
      material |-> "^12468^12512 / ^21512^25104^32032^26448 / ^32033^32340^29992^32330^32173",
      usage |-> "^30528^29992^12539^27497^34892",
      hs6 |-> "6404.11",
      hts10 |-> "6404.11.9020",
      jp_hs9 |-> "6404.11.000",
      chapter |-> "Chapter 64",
      reason |->
        "^26412^24213^12364^12468^12512^35069^21448^12399^12503^12521^12473^12481^12483^12463^35069^12289^30002^12364^32033^32340^29992^32330^32173^12398^12473^12509^12540^12484^29992^23653^29289=6404.11^12290JP: ^12473^12509^12540^12484^29992^12398^23653^29289^21450^12403^12486^12491^12473^12471^12517^12540^12474^31561^12290^12381^12398^20182=6404.19^12290" ],
    [ keywords |->
        <<
          "leather shoes", "^38761^38772", "^12525^12540^12501^12449^12540", "loafer",
          "^12458^12483^12463^12473^12501^12457^12540^12489", "oxford",
          "^12497^12531^12503^12473", "pumps", "^12489^12524^12473^12471^12517^12540^12474"
        >>,
      category |-> "^23653^29289^65288^38761^65289",
      material |-> "^38761",
      usage |-> "^12499^12472^12493^12473^12539^12501^12457^12540^12510^12523",
      hs6 |-> "6403.59",
      hts10 |-> "6403.59.9060",
      jp_hs9 |-> "6403.59.000",
      chapter |-> "Chapter 64",
      reason |->
        "^26412^24213^12364^12468^12512^12539^12503^12521^12473^12481^12483^12463^35069^12289^30002^12364^38761^35069^12398^38772=6403.59(^12367^12427^12406^12375^12434^35206^12431^12394^12356^12418^12398)^12290^12367^12427^12406^12375^12434^35206^12358^12418^12398=6403.51/91^12290" ],
    [ keywords |->
        <<
          "phone", "smartphone", "^12473^12510^12507",
          "^12473^12510^12540^12488^12501^12457^12531", "^25658^24111", "mobile", "iphone",
          "android", "galaxy", "pixel"
        >>,
      category |-> "^38651^23376^27231^22120^65288^36890^20449^65289",
      material |-> "^38651^23376^37096^21697 / ^12460^12521^12473 / ^37329^23646",
      usage |-> "^36890^20449^12539^24773^22577^20966^29702",
      hs6 |-> "8517.13",
      hts10 |-> "8517.13.0000",
      jp_hs9 |-> "8517.13.000",
      chapter |-> "Chapter 85",
      reason |->
        "^12473^12510^12540^12488^12501^12457^12531=8517.13^12290HTS 8517.13.00 stat.00^12290JP: 8517.13-000(^12473^12510^12540^12488^12501^12457^12531)^12290^12381^12398^20182^12398^25658^24111^38651^35441=8517.14^12290" ],
    [ keywords |->
        <<
          "earphone", "^12452^12516^12507^12531", "headphone",
          "^12504^12483^12489^12507^12531", "earbuds", "airpods",
          "^12527^12452^12516^12524^12473^12452^12516^12507^12531"
        >>,
      category |-> "^38651^23376^27231^22120^65288^38899^38911^65289",
      material |-> "^12503^12521^12473^12481^12483^12463 / ^37329^23646",
      usage |-> "^38899^22768^20877^29983",
      hs6 |-> "8518.30",
      hts10 |-> "8518.30.2000",
      jp_hs9 |-> "8518.30.900",
      chapter |-> "Chapter 85",
      reason |->
        "^12504^12483^12489^12507^12531^12539^12452^12516^12507^12531=8518.30^12290HTS 8518.30.20 stat.00^12290JP: 8518.30-100(^12504^12483^12489^12507^12531)^122898518.30-900(^12381^12398^20182=^12452^12516^12507^12531^31561)^12290" ],
    [ keywords |->
        <<
          "laptop", "^12494^12540^12488^12497^12477^12467^12531", "notebook pc",
          "^12494^12540^12488PC", "macbook", "chromebook"
        >>,
      category |-> "^38651^23376^27231^22120^65288PC^65289",
      material |-> "^38651^23376^37096^21697 / ^37329^23646 / ^12503^12521^12473^12481^12483^12463",
      usage |-> "^24773^22577^20966^29702",
      hs6 |-> "8471.30",
      hts10 |-> "8471.30.0100",
      jp_hs9 |-> "8471.30.000",
      chapter |-> "Chapter 84",
      reason |->
        "^25658^24111^29992^33258^21205^12487^12540^12479^20966^29702^27231^26800^6528810kg^20197^19979^12289CPU^12539^12461^12540^12508^12540^12489^12539^12487^12451^12473^12503^12524^12452^20869^34101^65289=8471.30^12290HTS 8471.30.01 stat.00^12290" ],
    [ keywords |->
        <<
          "tablet", "^12479^12502^12524^12483^12488", "ipad"
        >>,
      category |-> "^38651^23376^27231^22120^65288^12479^12502^12524^12483^12488^65289",
      material |-> "^38651^23376^37096^21697 / ^12460^12521^12473 / ^37329^23646",
      usage |-> "^24773^22577^20966^29702^12539^38322^35239",
      hs6 |-> "8471.30",
      hts10 |-> "8471.30.0100",
      jp_hs9 |-> "8471.30.000",
      chapter |-> "Chapter 84",
      reason |->
        "^12479^12502^12524^12483^12488^31471^26411^12399^25658^24111^29992^33258^21205^12487^12540^12479^20966^29702^27231^26800^12392^12375^123908471.30^12290^12487^12473^12463^12488^12483^12503PC=8471.41/49^12290" ],
    [ keywords |->
        <<
          "camera", "^12459^12513^12521", "^12487^12472^12459^12513", "digital camera",
          "^19968^30524", "^12511^12521^12540^12524^12473"
        >>,
      category |-> "^38651^23376^27231^22120^65288^20809^23398^65289",
      material |-> "^37329^23646 / ^12460^12521^12473 / ^38651^23376^37096^21697",
      usage |-> "^25774^24433",
      hs6 |-> "8525.81",
      hts10 |-> "8525.81.0040",
      jp_hs9 |-> "8525.81.000",
      chapter |-> "Chapter 85",
      reason |->
        "^12486^12524^12499^12472^12519^12531^12459^12513^12521^12289^12487^12472^12479^12523^12459^12513^12521^12289^12499^12487^12458^12459^12513^12521^12524^12467^12540^12480^12540=8525.81^12290" ],
    [ keywords |->
        <<
          "charger", "^20805^38651^22120", "adapter", "^12450^12480^12503^12479^12540",
          "power supply", "^38651^28304", "AC^12450^12480^12503^12479^12540"
        >>,
      category |-> "^38651^23376^27231^22120^65288^38651^28304^65289",
      material |-> "^12503^12521^12473^12481^12483^12463 / ^37329^23646",
      usage |-> "^20805^38651^12539^32102^38651",
      hs6 |-> "8504.40",
      hts10 |-> "8504.40.8500",
      jp_hs9 |-> "8504.40.900",
      chapter |-> "Chapter 85",
      reason |->
        "^12473^12479^12486^12451^12483^12463^12467^12531^12496^12540^12479^12540=8504.40^12290HTS: 8504.40.85(^36890^20449^27231^22120^29992)^12290ADP^27231^22120^29992^38651^28304=8504.40.60/70^12290JP: 8504.40-900(^12381^12398^20182)^12290" ],
    [ keywords |->
        <<
          "battery", "^12496^12483^12486^12522^12540", "^38651^27744",
          "^12522^12481^12454^12512", "lithium", "^33988^38651^27744",
          "^12522^12481^12454^12512^12452^12458^12531",
          "^12514^12496^12452^12523^12496^12483^12486^12522^12540"
        >>,
      category |-> "^38651^23376^27231^22120^65288^33988^38651^27744^65289",
      material |-> "^12522^12481^12454^12512 / ^37329^23646",
      usage |-> "^33988^38651^12539^32102^38651",
      hs6 |-> "8507.60",
      hts10 |-> "8507.60.0090",
      jp_hs9 |-> "8507.60.000",
      chapter |-> "Chapter 85",
      reason |->
        "^12522^12481^12454^12512^12452^12458^12531^33988^38651^27744=8507.60^12290HTS 8507.60.00 stat.90(^19968^33324^28040^36027^32773^21521^12369)^12290EV^29992=stat.10^12290^12491^12483^12465^12523^27700^32032=8507.50^12290" ],
    [ keywords |->
        <<
          "speaker", "^12473^12500^12540^12459^12540", "bluetooth speaker",
          "^12509^12540^12479^12502^12523^12473^12500^12540^12459^12540"
        >>,
      category |-> "^38651^23376^27231^22120^65288^38899^38911^65289",
      material |-> "^12503^12521^12473^12481^12483^12463 / ^37329^23646",
      usage |-> "^38899^22768^20877^29983",
      hs6 |-> "8518.22",
      hts10 |-> "8518.22.0000",
      jp_hs9 |-> "8518.22.000",
      chapter |-> "Chapter 85",
      reason |->
        "^35079^25968^22411^25313^22768^22120^65288^21516^19968^12456^12531^12463^12525^12540^12472^12515^12540^65289=8518.22^12290^21336^19968^22411=8518.21^12290JP: 8518.22-000^12290" ],
    [ keywords |->
        <<
          "jewelry", "^12472^12517^12456^12522^12540", "^12450^12463^12475^12469^12522^12540",
          "necklace", "^12493^12483^12463^12524^12473", "ring", "^25351^36650",
          "^12522^12531^12464", "bracelet", "^12502^12524^12473^12524^12483^12488", "earring",
          "^12500^12450^12473", "^12452^12516^12522^12531^12464", "pendant",
          "^12506^12531^12480^12531^12488"
        >>,
      category |-> "^23453^39166^21697^12539^12450^12463^12475^12469^12522^12540",
      material |-> "^36020^37329^23646 / ^23453^30707 / ^21512^37329",
      usage |-> "^35013^39166^12539^30528^29992",
      hs6 |-> "7117.19",
      hts10 |-> "7117.19.9000",
      jp_hs9 |-> "7117.19.000",
      chapter |-> "Chapter 71",
      reason |->
        "^36523^36794^29992^27169^36896^32048^36008^39006^65288^21329^37329^23646^35069^65289=7117.19^12290^12459^12501^12473^12508^12479^12531=7117.11^12290^36020^37329^23646^35069^12398^36523^36794^29992^32048^36008^39006^123997113^12290" ],
    [ keywords |->
        <<
          "watch", "^26178^35336", "^33109^26178^35336", "^12454^12457^12483^12481",
          "wristwatch", "^12473^12510^12540^12488^12454^12457^12483^12481", "smartwatch"
        >>,
      category |-> "^26178^35336",
      material |-> "^37329^23646 / ^12460^12521^12473 / ^12503^12521^12473^12481^12483^12463",
      usage |-> "^26178^21051^30906^35469^12539^35013^39166",
      hs6 |-> "9102.12",
      hts10 |-> "9102.12.8040",
      jp_hs9 |-> "9102.12.000",
      chapter |-> "Chapter 91",
      reason |->
        "^38651^23376^24335^33109^26178^35336^12290^12458^12503^12488^12456^12524^12463^12488^12525^12491^12463^12473^34920^31034^37096^12398^12415=9102.12(^12487^12472^12479^12523/^12473^12510^12540^12488^12454^12457^12483^12481)^12289^27231^26800^24335^34920^31034^37096^12398^12415=9102.11(^12450^12490^12525^12464)^12290^38750^38651^23376^24335=9102.21/29^12290" ],
    [ keywords |->
        <<
          "toy", "^12362^12418^12385^12419", "^29609^20855", "^12396^12356^12368^12427^12415",
          "stuffed", "plush", "^12501^12451^12462^12517^12450", "figure", "^20154^24418",
          "doll", "^12524^12468", "lego"
        >>,
      category |-> "^29609^20855",
      material |-> "^12503^12521^12473^12481^12483^12463 / ^24067 / ^37329^23646",
      usage |-> "^36938^25135^12539^21454^38598",
      hs6 |-> "9503.00",
      hts10 |-> "9503.00.0080",
      jp_hs9 |-> "9503.00.000",
      chapter |-> "Chapter 95",
      reason |->
        "^19977^36650^36554^12289^20154^24418^12289^12381^12398^20182^12398^29609^20855^12289^32302^23610^27169^22411^21450^12403^12497^12474^12523=9503.00^12290JP: 9503.00-000^12290" ],
    [ keywords |->
        <<
          "golf", "^12468^12523^12501", "tennis", "^12486^12491^12473", "racket",
          "^12521^12465^12483^12488", "sports equipment",
          "^12473^12509^12540^12484^29992^21697", "^12488^12524^12540^12491^12531^12464",
          "training", "^12480^12531^12505^12523", "dumbbell", "^12520^12460", "yoga"
        >>,
      category |-> "^12473^12509^12540^12484^29992^21697",
      material |-> "^37329^23646 / ^12459^12540^12508^12531 / ^12468^12512",
      usage |-> "^12473^12509^12540^12484^12539^36939^21205",
      hs6 |-> "9506.91",
      hts10 |-> "9506.91.0030",
      jp_hs9 |-> "9506.91.000",
      chapter |-> "Chapter 95",
      reason |->
        "^36523^20307^12488^12524^12540^12491^12531^12464^29992^20855^12289^20307^25805^29992^20855^21450^12403^31478^25216^29992^20855=9506.91^12290^12468^12523^12501^12463^12521^12502=9506.31^12289^12486^12491^12473^12521^12465^12483^12488=9506.51^12290" ],
    [ keywords |->
        <<
          "chair", "^26885^23376", "^12481^12455^12450", "sofa", "^12477^12501^12449", "stool",
          "^12473^12484^12540^12523", "^24231^26885^23376"
        >>,
      category |-> "^23478^20855^65288^24231^12427^12418^12398^65289",
      material |-> "^26408 / ^37329^23646 / ^24067",
      usage |-> "^30528^24231",
      hs6 |-> "9401.61",
      hts10 |-> "9401.61.6011",
      jp_hs9 |-> "9401.61.000",
      chapter |-> "Chapter 94",
      reason |->
        "^26408^35069^12501^12524^12540^12512^12539^12450^12483^12503^12507^12523^12473^12479^12540^12398^33136^25499^12369=9401.61^12290^37329^23646^12501^12524^12540^12512=9401.71^12290JP: 9401.61-000^12290" ],
    [ keywords |->
        <<
          "table", "^12486^12540^12502^12523", "desk", "^12487^12473^12463", "^26426",
          "^12480^12452^12491^12531^12464^12486^12540^12502^12523"
        >>,
      category |-> "^23478^20855^65288^12486^12540^12502^12523^65289",
      material |-> "^26408 / ^37329^23646",
      usage |-> "^20316^26989^12539^39135^20107",
      hs6 |-> "9403.60",
      hts10 |-> "9403.60.8081",
      jp_hs9 |-> "9403.60.000",
      chapter |-> "Chapter 94",
      reason |->
        "^12381^12398^20182^12398^26408^35069^23478^20855=9403.60(^12486^12540^12502^12523^12539^12487^12473^12463^21547^12416)^12290^20107^21209^25152^29992^26408^35069^23478^20855=9403.30^12289^23517^23460^29992=9403.50^12290" ],
    [ keywords |->
        <<
          "bed", "^12505^12483^12489", "mattress", "^12510^12483^12488^12524^12473",
          "^24067^22243", "futon"
        >>,
      category |-> "^23478^20855^65288^23517^20855^65289",
      material |-> "^26408 / ^37329^23646 / ^12454^12524^12479^12531",
      usage |-> "^30561^30496",
      hs6 |-> "9404.21",
      hts10 |-> "9404.21.0010",
      jp_hs9 |-> "9404.21.000",
      chapter |-> "Chapter 94",
      reason |->
        "^12510^12483^12488^12524^12473^65288^12475^12523^12521^12540^12521^12496^12540^35069^21448^12399^22810^27873^24615^12503^12521^12473^12481^12483^12463^35069^65289=9404.21^12290^12381^12398^20182^26448^26009^35069=9404.29^12290^24067^22243^12539^12505^12483^12489^12473^12503^12524^12483^12489=9404.40^12290" ],
    [ keywords |->
        <<
          "lamp", "^12521^12531^12503", "^29031^26126", "light", "^12521^12452^12488",
          "chandelier", "^12471^12515^12531^12487^12522^12450", "LED"
        >>,
      category |-> "^29031^26126^22120^20855",
      material |-> "^37329^23646 / ^12460^12521^12473 / ^12503^12521^12473^12481^12483^12463",
      usage |-> "^29031^26126",
      hs6 |-> "9405.11",
      hts10 |-> "9405.11.4010",
      jp_hs9 |-> "9405.11.000",
      chapter |-> "Chapter 94",
      reason |->
        "LED^20809^28304^29992^22825^20117^12539^22721^25499^12369^29031^26126^22120^20855=9405.11^12290^21331^19978^12539^24202^32622^12365=9405.21/29^12290^38750^38651^27671^24335=9405.50^12290" ],
    [ keywords |->
        <<
          "cosmetics", "^21270^31911^21697", "makeup", "^12513^12452^12463",
          "^12501^12449^12531^12487^12540^12471^12519^12531", "foundation", "lipstick",
          "^21475^32005", "^12522^12483^12503", "^12450^12452^12471^12515^12489^12454",
          "eyeshadow", "^12510^12473^12459^12521", "mascara"
        >>,
      category |-> "^21270^31911^21697",
      material |-> "^21270^23398^21407^26009 / ^38996^26009",
      usage |-> "^32654^23481^12539^12513^12452^12463^12450^12483^12503",
      hs6 |-> "3304.10",
      hts10 |-> "3304.10.0000",
      jp_hs9 |-> "3304.10.000",
      chapter |-> "Chapter 33",
      reason |->
        "^21767^12398^12513^12540^12461^12515^12483^12503^29992^35519^35069^21697=3304.10^12290^30524^12398^12513^12540^12461^12515^12483^12503=3304.20^12290^12497^12454^12480^12540=3304.91^12290^12510^12491^12461^12517^12450=3304.30^12290" ],
    [ keywords |->
        <<
          "perfume", "^39321^27700", "^12501^12524^12464^12521^12531^12473", "fragrance",
          "cologne", "^12467^12525^12531", "eau de toilette", "eau de parfum", "parfum", "edp",
          "edt"
        >>,
      category |-> "^39321^27700^12539^12501^12524^12464^12521^12531^12473",
      material |-> "^12450^12523^12467^12540^12523 / ^39321^26009",
      usage |-> "^33459^39321",
      hs6 |-> "3303.00",
      hts10 |-> "3303.00.3000",
      jp_hs9 |-> "3303.00.000",
      chapter |-> "Chapter 33",
      reason |->
        "^39321^27700^39006^21450^12403^12458^12540^12487^12467^12525^12531^39006=3303.00^12290JP: 3303.00-000^12290" ],
    [ keywords |->
        <<
          "skincare", "^12473^12461^12531^12465^12450", "cream", "^12463^12522^12540^12512",
          "lotion", "^12525^12540^12471^12519^12531", "serum", "^32654^23481^28082",
          "moisturizer", "^20445^28287", "sunscreen", "^26085^28988^12369^27490^12417",
          "^21270^31911^27700", "^20083^28082"
        >>,
      category |-> "^12473^12461^12531^12465^12450^35069^21697",
      material |-> "^21270^23398^21407^26009 / ^26893^29289^12456^12461^12473",
      usage |-> "^32908^12398^25163^20837^12428",
      hs6 |-> "3304.99",
      hts10 |-> "3304.99.5000",
      jp_hs9 |-> "3304.99.900",
      chapter |-> "Chapter 33",
      reason |->
        "^30382^33178^12398^25163^20837^12428^29992^35519^35069^21697^65288^12381^12398^20182^65289=3304.99^12290JP: ^21270^31911^19979=3304.99-100^12289^12463^12522^12540^12512=3304.99-200^12289^12381^12398^20182=3304.99-900^12290" ],
    [ keywords |->
        <<
          "shampoo", "^12471^12515^12531^12503^12540", "conditioner",
          "^12467^12531^12487^12451^12471^12519^12490^12540", "hair care",
          "^12504^12450^12465^12450", "hair oil", "^12504^12450^12458^12452^12523",
          "^12488^12522^12540^12488^12513^12531^12488", "treatment"
        >>,
      category |-> "^12504^12450^12465^12450^35069^21697",
      material |-> "^30028^38754^27963^24615^21092 / ^21270^23398^21407^26009",
      usage |-> "^38957^39658^12398^25163^20837^12428",
      hs6 |-> "3305.10",
      hts10 |-> "3305.10.0000",
      jp_hs9 |-> "3305.10.000",
      chapter |-> "Chapter 33",
      reason |->
        "^12471^12515^12531^12503^12540=3305.10^12290^12504^12450^12521^12483^12459^12540=3305.30^12290^12381^12398^20182^12398^38957^39658^29992^35519^35069^21697=3305.90^12290" ],
    [ keywords |->
        <<
          "soap", "^30707^40568", "^12477^12540^12503", "hand wash",
          "^12495^12531^12489^12477^12540^12503", "^12508^12487^12451^12477^12540^12503",
          "body wash"
        >>,
      category |-> "^30707^40568^12539^27927^27972^21092",
      material |-> "^30028^38754^27963^24615^21092 / ^27833^33026",
      usage |-> "^27927^27972",
      hs6 |-> "3401.30",
      hts10 |-> "3401.30.5000",
      jp_hs9 |-> "3401.30.000",
      chapter |-> "Chapter 34",
      reason |->
        "^26377^27231^30028^38754^27963^24615^21092^21450^12403^12381^12398^35519^35069^21697^65288^30382^33178^12398^27927^27972^12395^20351^29992^12377^12427^28082^29366^12539^12463^12522^12540^12512^29366^12398^12418^12398^65289=3401.30^12290^22266^24418^30707^40568^65288^21270^31911^29992^65289=3401.11^12290" ],
    [ keywords |->
        <<
          "candle", "^12461^12515^12531^12489^12523", "^12429^12358^12381^12367",
          "^34635^29165", "^12450^12525^12510^12461^12515^12531^12489^12523"
        >>,
      category |-> "^12429^12358^12381^12367^12539^12461^12515^12531^12489^12523",
      material |-> "^12527^12483^12463^12473 / ^12497^12521^12501^12451^12531",
      usage |-> "^29031^26126^12539^33459^39321",
      hs6 |-> "3406.00",
      hts10 |-> "3406.00.0000",
      jp_hs9 |-> "3406.00.000",
      chapter |-> "Chapter 34",
      reason |->
        "^12429^12358^12381^12367^21450^12403^12371^12428^12395^39006^12377^12427^29289^21697=3406.00^12290" ],
    [ keywords |->
        <<
          "plastic container", "^12503^12521^12473^12481^12483^12463^23481^22120",
          "^12479^12483^12497^12540", "^20445^23384^23481^22120", "food container"
        >>,
      category |-> "^12503^12521^12473^12481^12483^12463^35069^21697",
      material |-> "^12503^12521^12473^12481^12483^12463",
      usage |-> "^39135^21697^20445^23384^12539^21454^32013",
      hs6 |-> "3924.10",
      hts10 |-> "3924.10.4000",
      jp_hs9 |-> "3924.10.000",
      chapter |-> "Chapter 39",
      reason |->
        "^12503^12521^12473^12481^12483^12463^35069^12398^39135^21331^29992^21697^21450^12403^21488^25152^29992^21697=3924.10^12290^12381^12398^20182^12398^23478^24237^29992^21697=3924.90^12290" ],
    [ keywords |->
        <<
          "stainless", "^12473^12486^12531^12524^12473", "^27700^31570", "tumbler",
          "^12479^12531^12502^12521^12540", "flask", "^39764^27861^29942", "thermos"
        >>,
      category |-> "^37329^23646^35069^23481^22120",
      material |-> "^12473^12486^12531^12524^12473^37628",
      usage |-> "^39154^26009^25658^34892^12539^20445^28201",
      hs6 |-> "7323.93",
      hts10 |-> "7323.93.0045",
      jp_hs9 |-> "7323.93.000",
      chapter |-> "Chapter 73",
      reason |->
        "^12473^12486^12531^12524^12473^37628^35069^12398^39135^21331^29992^21697^12289^21488^25152^29992^21697^31561=7323.93^12290^37619^37444^35069=7323.91/92^12290" ],
    [ keywords |->
        <<
          "towel", "^12479^12458^12523", "^12496^12473^12479^12458^12523",
          "^12495^12531^12489^12479^12458^12523"
        >>,
      category |-> "^32330^32173^35069^21697^65288^12479^12458^12523^65289",
      material |-> "^32191",
      usage |-> "^28165^25325^12539^20094^29157",
      hs6 |-> "6302.60",
      hts10 |-> "6302.60.0020",
      jp_hs9 |-> "6302.60.000",
      chapter |-> "Chapter 63",
      reason |->
        "^12488^12452^12524^12483^12488^12522^12493^12531^21450^12403^12461^12483^12481^12531^12522^12493^12531^65288^12486^12522^12540^12479^12458^12523^22320^12289^32191^35069^65289=6302.60^12290" ],
    [ keywords |->
        <<
          "blanket", "^12502^12521^12531^12465^12483^12488", "^27611^24067"
        >>,
      category |-> "^32330^32173^35069^21697^65288^27611^24067^65289",
      material |-> "^12509^12522^12456^12473^12486^12523 / ^12454^12540^12523",
      usage |-> "^38450^23506^12539^23517^20855",
      hs6 |-> "6301.40",
      hts10 |-> "6301.40.0020",
      jp_hs9 |-> "6301.40.000",
      chapter |-> "Chapter 63",
      reason |->
        "^21512^25104^32330^32173^35069^12398^27611^24067=6301.40^12290^32191^35069=6301.30^12290^32650^27611^35069=6301.20^12290" ],
    [ keywords |->
        <<
          "ceramic", "^38518^22120", "^30913^22120", "cup", "^12459^12483^12503", "mug",
          "^12510^12464^12459^12483^12503", "pottery", "^39135^22120", "plate", "^30399",
          "bowl", "^12508^12454^12523"
        >>,
      category |-> "^38518^30913^22120",
      material |-> "^30913^22120 / ^38518^22120",
      usage |-> "^39135^20107^12539^35013^39166",
      hs6 |-> "6912.00",
      hts10 |-> "6912.00.4500",
      jp_hs9 |-> "6912.00.000",
      chapter |-> "Chapter 69",
      reason |->
        "^38518^30913^35069^12398^39135^21331^29992^21697^12289^21488^25152^29992^21697^31561^65288^30913^22120^35069^12434^38500^12367^65289=6912.00^12290^30913^22120^35069=6911.10^12290" ],
    [ keywords |->
        <<
          "book", "^26412", "^26360^31821", "^12510^12531^12460", "manga", "comic",
          "^38609^35468", "magazine"
        >>,
      category |-> "^26360^31821^12539^21360^21047^29289",
      material |-> "^32025",
      usage |-> "^38322^35239^12539^23398^32722",
      hs6 |-> "4901.99",
      hts10 |-> "4901.99.0092",
      jp_hs9 |-> "4901.99.000",
      chapter |-> "Chapter 49",
      reason |->
        "^21360^21047^12373^12428^12383^26360^31821^65288^12381^12398^20182^65289=4901.99^12290^36766^20856^12539^20107^20856=4901.91^12290^21336^19968^12471^12540^12488=4901.10^12290" ],
    [ keywords |->
        <<
          "coffee", "^12467^12540^12498^12540", "^29640^29746", "espresso", "^12459^12501^12455"
        >>,
      category |-> "^39154^26009^65288^12467^12540^12498^12540^65289",
      material |-> "^12467^12540^12498^12540^35910",
      usage |-> "^39154^29992",
      hs6 |-> "0901.21",
      hts10 |-> "0901.21.0045",
      jp_hs9 |-> "0901.21.000",
      chapter |-> "Chapter 09",
      reason |->
        "^28953^29006^12467^12540^12498^12540^65288^12459^12501^12455^12452^12531^38500^21435^12394^12375^65289=0901.21^12290^12459^12501^12455^12452^12531^38500^21435^28168^12415=0901.22^12290^29983^35910=0901.11^12290" ],
    [ keywords |->
        <<
          "tea", "^33590", "^12362^33590", "green tea", "^32209^33590", "^32005^33590",
          "black tea", "^25273^33590", "matcha"
        >>,
      category |-> "^39154^26009^65288^33590^65289",
      material |-> "^33590^33865",
      usage |-> "^39154^29992",
      hs6 |-> "0902.10",
      hts10 |-> "0902.10.1010",
      jp_hs9 |-> "0902.10.900",
      chapter |-> "Chapter 09",
      reason |->
        "^32209^33590^652883kg^20197^19979^12398^21253^35013^65289=0902.10^12290JP: ^31881^26411^29366=0902.10-100^12289^12381^12398^20182=0902.10-900^12290^32005^33590=0902.30/40^12290" ],
    [ keywords |->
        <<
          "chocolate", "^12481^12519^12467", "^12481^12519^12467^12524^12540^12488", "cacao",
          "^12459^12459^12458", "cocoa"
        >>,
      category |-> "^39135^21697^65288^12481^12519^12467^12524^12540^12488^65289",
      material |-> "^12459^12459^12458 / ^30722^31958",
      usage |-> "^39135^29992",
      hs6 |-> "1806.31",
      hts10 |-> "1806.31.0040",
      jp_hs9 |-> "1806.31.000",
      chapter |-> "Chapter 18",
      reason |->
        "^12481^12519^12467^12524^12540^12488^33747^23376^65288^35440^29289^12434^12375^12383^12418^12398^65289=1806.31^12290^35440^29289^12394^12375=1806.32^12290^12381^12398^20182^12481^12519^12467^12524^12540^12488^35069^21697=1806.90^12290" ],
    [ keywords |->
        <<
          "supplement", "^12469^12503^12522", "^12469^12503^12522^12513^12531^12488",
          "vitamin", "^12499^12479^12511^12531", "^12503^12525^12486^12452^12531", "protein",
          "^12511^12493^12521^12523", "^12450^12511^12494^37240"
        >>,
      category |-> "^26628^39178^35036^21161^39135^21697",
      material |-> "^21508^31278^26628^39178^32032",
      usage |-> "^20581^24247^32173^25345",
      hs6 |-> "2106.90",
      hts10 |-> "2106.90.9998",
      jp_hs9 |-> "2106.90.300",
      chapter |-> "Chapter 21",
      reason |->
        "^35519^35069^39135^26009^21697^65288^12381^12398^20182^65289=2106.90^12290JP: ^12499^12479^12511^12531^12539^12511^12493^12521^12523^12539^12450^12511^12494^37240^31561^12434^12418^12392^12392^12375^12383^26628^39178^35036^21161^39135^21697=2106.90-300^12290^35910^33104=2106.90-200^12290" ],
    [ keywords |->
        <<
          "hat", "^24125^23376", "cap", "^12461^12515^12483^12503", "^12505^12524^12540^24125",
          "beret", "^12491^12483^12488^24125", "beanie"
        >>,
      category |-> "^24125^23376^39006",
      material |-> "^32191 / ^12509^12522^12456^12473^12486^12523 / ^12454^12540^12523",
      usage |-> "^30528^29992^12539^26085^38500^12369",
      hs6 |-> "6505.00",
      hts10 |-> "6505.00.8015",
      jp_hs9 |-> "6505.00.000",
      chapter |-> "Chapter 65",
      reason |->
        "^12513^12522^12516^12473^32232^12415^21448^12399^12463^12525^12475^32232^12415^12398^24125^23376^12289^12504^12450^12493^12483^12488^31561=6505.00^12290^12501^12455^12523^12488^24125^23376=6505^12395^21547^12416^12290" ],
    [ keywords |->
        <<
          "umbrella", "^20632", "^26085^20632", "^25240^12426^30067^12415^20632", "parasol",
          "^25240^12426^12383^12383^12415^20632"
        >>,
      category |-> "^20632",
      material |-> "^37329^23646 / ^12509^12522^12456^12473^12486^12523",
      usage |-> "^38450^38632^12539^26085^38500^12369",
      hs6 |-> "6601.99",
      hts10 |-> "6601.99.0000",
      jp_hs9 |-> "6601.99.000",
      chapter |-> "Chapter 66",
      reason |->
        "^20632^65288^12381^12398^20182^65289=6601.99^12290^25240^30067^12415^24335=6601.91^12290^12499^12540^12481^12497^12521^12477^12523=6601.10^12290" ],
    [ keywords |->
        <<
          "glasses", "^12513^12460^12493", "^30524^37857", "^12469^12531^12464^12521^12473",
          "sunglasses"
        >>,
      category |-> "^20809^23398^27231^22120^65288^30524^37857^65289",
      material |-> "^12503^12521^12473^12481^12483^12463 / ^12460^12521^12473 / ^37329^23646",
      usage |-> "^35222^21147^30703^27491^12539^36974^20809",
      hs6 |-> "9004.10",
      hts10 |-> "9004.10.0000",
      jp_hs9 |-> "9004.10.000",
      chapter |-> "Chapter 90",
      reason |->
        "^12469^12531^12464^12521^12473=9004.10^12290^12381^12398^20182^12398^30524^37857^65288^30703^27491^29992^31561^65289=9004.90^12290" ],
    [ keywords |->
        <<
          "car parts", "^33258^21205^36554^37096^21697", "^12459^12540^12497^12540^12484",
          "^12479^12452^12516", "tire", "wheel", "^12507^12452^12540^12523"
        >>,
      category |-> "^33258^21205^36554^37096^21697",
      material |-> "^37329^23646 / ^12468^12512",
      usage |-> "^33258^21205^36554^25972^20633",
      hs6 |-> "8708.99",
      hts10 |-> "8708.99.8180",
      jp_hs9 |-> "8708.99.900",
      chapter |-> "Chapter 87",
      reason |->
        "^33258^21205^36554^37096^21697^65288^12381^12398^20182^65289=8708.99^12290JP: ^36554^36650^24335^12488^12521^12463^12479^12540^29992=8708.99-100^12289^12381^12398^20182=8708.99-900^12290^12496^12531^12497^12540=8708.10^12289^12502^12524^12540^12461=8708.30^12290" ],
    [ keywords |->
        <<
          "wooden", "^26408^35069", "cutting board", "^12414^12394^26495", "^26408^31665",
          "wood"
        >>,
      category |-> "^26408^35069^21697",
      material |-> "^26408^26448",
      usage |-> "^23478^24237^29992^12539^35519^29702",
      hs6 |-> "4419.19",
      hts10 |-> "4419.19.0000",
      jp_hs9 |-> "4419.19.090",
      chapter |-> "Chapter 44",
      reason |->
        "^26408^35069^12398^39135^21331^29992^21697^21450^12403^21488^25152^29992^21697=4419^12290^31481^35069^12414^12394^26495=4419.11^12290JP: ^28422^22615^12426=4419.19-010^12289^12381^12398^20182=4419.19-090^12290" ],
    [ keywords |->
        <<
          "paper", "^32025", "^12494^12540^12488", "notebook", "^12513^12514^24115",
          "^20415^31627", "^23553^31570", "envelope", "^12486^12451^12483^12471^12517",
          "tissue", "^12488^12452^12524^12483^12488^12506^12540^12497^12540", "toilet paper"
        >>,
      category |-> "^32025^35069^21697",
      material |-> "^32025^12539^12497^12523^12503",
      usage |-> "^31558^35352^12539^34907^29983",
      hs6 |-> "4820.10",
      hts10 |-> "4820.10.2020",
      jp_hs9 |-> "4820.10.000",
      chapter |-> "Chapter 48",
      reason |->
        "^24115^31807^12289^20250^35336^31807^12289^38609^35352^24115^12289^27880^25991^24115^12289^20415^12379^12435^12289^12513^12514^24115^31561=4820.10^12290^32244^32722^24115=4820.20^12290^12496^12452^12531^12480^12540=4820.30^12290" ],
    [ keywords |->
        <<
          "knife", "^12490^12452^12501", "^21253^19969", "kitchen knife", "^20995^29289",
          "^12399^12373^12415", "scissors", "^24037^20855", "tool",
          "^12489^12521^12452^12496^12540", "screwdriver", "wrench", "^12524^12531^12481"
        >>,
      category |-> "^24037^20855^12539^20995^29289",
      material |-> "^37628 / ^12473^12486^12531^12524^12473",
      usage |-> "^20999^26029^12539^20316^26989",
      hs6 |-> "8211.91",
      hts10 |-> "8211.91.8060",
      jp_hs9 |-> "8211.91.000",
      chapter |-> "Chapter 82",
      reason |->
        "^12486^12540^12502^12523^12490^12452^12501^65288^22266^23450^20995^65289=8211.91^12290^12381^12398^20182^12398^12490^12452^12501^65288^22266^23450^20995^65289=8211.92^12290^25240^12426^30067^12415^12490^12452^12501=8211.93^12290^35440^21512^12379^12475^12483^12488=8211.10^12290" ],
    [ keywords |->
        <<
          "toothbrush", "^27503^12502^12521^12471", "brush", "^12502^12521^12471",
          "^12504^12450^12502^12521^12471"
        >>,
      category |-> "^12502^12521^12471^39006",
      material |-> "^12503^12521^12473^12481^12483^12463 / ^12490^12452^12525^12531",
      usage |-> "^28165^25475^12539^34907^29983",
      hs6 |-> "9603.21",
      hts10 |-> "9603.21.0000",
      jp_hs9 |-> "9603.21.000",
      chapter |-> "Chapter 96",
      reason |->
        "^27503^12502^12521^12471^65288^32681^27503^29992^12502^12521^12471^12434^21547^12416^65289=9603.21^12290HTS: 2^00162 each + Free(^29305^24693)^12290^12381^12398^20182^12398^36523^20307^29992^12502^12521^12471=9603.29^12290" ],
    [ keywords |->
        <<
          "pen", "^12506^12531", "^12508^12540^12523^12506^12531", "ballpoint",
          "^19975^24180^31558", "fountain pen", "^37467^31558", "pencil",
          "^12471^12515^12540^12503^12506^12531^12471^12523", "^12510^12540^12459^12540",
          "marker"
        >>,
      category |-> "^31558^35352^20855",
      material |-> "^12503^12521^12473^12481^12483^12463 / ^37329^23646",
      usage |-> "^31558^35352",
      hs6 |-> "9608.10",
      hts10 |-> "9608.10.0000",
      jp_hs9 |-> "9608.10.900",
      chapter |-> "Chapter 96",
      reason |->
        "^12508^12540^12523^12506^12531=9608.10^12290JP: ^27833^24615=9608.10-100^12289^12381^12398^20182=9608.10-900^12290^12501^12455^12523^12488^12506^12531=9608.20^12290^19975^24180^31558=9608.30^12290^12471^12515^12540^12503^12506^12531^12471^12523=9608.40^12290" ],
    [ keywords |->
        <<
          "guitar", "^12462^12479^12540", "bass guitar",
          "^12505^12540^12473^12462^12479^12540", "acoustic guitar", "electric guitar",
          "ukulele", "^12454^12463^12524^12524", "banjo", "mandolin"
        >>,
      category |-> "^24358^27005^22120",
      material |-> "^26408^26448 / ^37329^23646^24358",
      usage |-> "^28436^22863",
      hs6 |-> "9202.90",
      hts10 |-> "9202.90.2000",
      jp_hs9 |-> "9202.90.000",
      chapter |-> "Chapter 92",
      reason |->
        "^12381^12398^20182^12398^24358^27005^22120=9202.90^12290^12462^12479^12540=9202.90^12290JP: 9202.90-000^12290^12496^12452^12458^12522^12531=9202.10^12290" ],
    [ keywords |->
        <<
          "piano", "^12500^12450^12494", "keyboard", "^12461^12540^12508^12540^12489", "organ",
          "^12458^12523^12460^12531", "synthesizer",
          "^12471^12531^12475^12469^12452^12470^12540", "accordion",
          "^12450^12467^12540^12487^12451^12458^12531"
        >>,
      category |-> "^37749^30436^27005^22120",
      material |-> "^26408^26448 / ^37329^23646 / ^12503^12521^12473^12481^12483^12463",
      usage |-> "^28436^22863",
      hs6 |-> "9201.10",
      hts10 |-> "9201.10.0000",
      jp_hs9 |-> "9201.10.000",
      chapter |-> "Chapter 92",
      reason |->
        "^12450^12483^12503^12521^12452^12488^12500^12450^12494=9201.10^12290^12464^12521^12531^12489^12500^12450^12494=9201.20^12290^38651^23376^12500^12450^12494^12539^12461^12540^12508^12540^12489=9207^12290JP: 9201.10-000^12290" ],
    [ keywords |->
        <<
          "drum", "^12489^12521^12512", "percussion",
          "^12497^12540^12459^12483^12471^12519^12531", "cymbal", "^12471^12531^12496^12523",
          "snare", "tambourine", "^12479^12531^12496^12522^12531", "cajon", "^12459^12507^12531"
        >>,
      category |-> "^25171^27005^22120",
      material |-> "^26408^26448 / ^37329^23646 / ^30382^38761",
      usage |-> "^28436^22863",
      hs6 |-> "9206.00",
      hts10 |-> "9206.00.4000",
      jp_hs9 |-> "9206.00.000",
      chapter |-> "Chapter 92",
      reason |->
        "^25171^27005^22120=9206.00^12290^12489^12521^12512^12475^12483^12488^12289^12471^12531^12496^12523^31561^12290JP: 9206.00-000^12290" ],
    [ keywords |->
        <<
          "trumpet", "^12488^12521^12531^12506^12483^12488", "saxophone",
          "^12469^12463^12477^12501^12457^12531", "flute", "^12501^12523^12540^12488",
          "clarinet", "^12463^12521^12522^12493^12483^12488", "trombone",
          "^12488^12525^12531^12508^12540^12531", "harmonica",
          "^12495^12540^12514^12491^12459", "violin", "^12496^12452^12458^12522^12531",
          "cello", "^12481^12455^12525", "viola"
        >>,
      category |-> "^31649^27005^22120^12539^24358^27005^22120",
      material |-> "^37329^23646 / ^26408^26448",
      usage |-> "^28436^22863",
      hs6 |-> "9205.90",
      hts10 |-> "9205.90.4000",
      jp_hs9 |-> "9205.90.000",
      chapter |-> "Chapter 92",
      reason |->
        "^12381^12398^20182^12398^31649^27005^22120=9205.90^12290^12488^12521^12531^12506^12483^12488=9205.10^12290^12501^12523^12540^12488=9205.10^12290^12496^12452^12458^12522^12531=9202.10^12290^12481^12455^12525=9202.10^12290JP: 9205.90-000^12290" ],
    [ keywords |->
        <<
          "rug", "^12521^12464", "carpet", "^12459^12540^12506^12483^12488",
          "^12376^12421^12358^12383^12435", "^32104^27631", "area rug", "runner", "mat",
          "^12510^12483^12488", "persian rug", "kilim", "tapestry",
          "^12479^12506^12473^12488^12522^12540"
        >>,
      category |-> "^12376^12421^12358^12383^12435^12539^24202^25975^29289",
      material |-> "^32650^27611 / ^21512^25104^32330^32173 / ^32191",
      usage |-> "^24202^25975^12539^35013^39166",
      hs6 |-> "5703.30",
      hts10 |-> "5703.30.2010",
      jp_hs9 |-> "5703.30.000",
      chapter |-> "Chapter 57",
      reason |->
        "^12479^12501^12486^12483^12489^12376^12421^12358^12383^12435^12539^24202^29992^25975^29289^65288^12490^12452^12525^12531^35069^65289=5703.20^12289^12381^12398^20182^21512^25104^32330^32173=5703.30^12290^25163^32340^12426=5701^12289^32080^12403^12497^12452^12523=5701.10^12290JP: 5703.30-000^12290" ],
    [ keywords |->
        <<
          "drone", "^12489^12525^12540^12531", "quadcopter",
          "^12510^12523^12481^12467^12503^12479^12540", "UAV", "unmanned aerial",
          "camera drone", "racing drone", "fpv drone"
        >>,
      category |-> "^28961^20154^33322^31354^27231^65288^12489^12525^12540^12531^65289",
      material |-> "^12503^12521^12473^12481^12483^12463 / ^12459^12540^12508^12531 / ^37329^23646",
      usage |-> "^31354^25774^12539^12524^12540^12473^12539^29987^26989^29992",
      hs6 |-> "8806.10",
      hts10 |-> "8806.10.0000",
      jp_hs9 |-> "8806.10.000",
      chapter |-> "Chapter 88",
      reason |->
        "^28961^20154^33322^31354^27231=8806.10^65288^26368^22823^38626^38520^37325^37327250g^20197^19979^65289^12290250g^362292kg^20197^19979=8806.21^122902kg^3622925kg^20197^19979=8806.22^1229025kg^36229150kg^20197^19979=8806.23^12290150kg^36229=8806.24^12290JP: 8806.10-000^12290" ],
    [ keywords |->
        <<
          "medicine", "^21307^34220^21697", "pharmaceutical", "tablet", "capsule",
          "supplement", "^12469^12503^12522^12513^12531^12488", "vitamin",
          "^12499^12479^12511^12531"
        >>,
      category |-> "^21307^34220^21697^12539^12469^12503^12522^12513^12531^12488",
      material |-> "^21270^23398^29289^36074 / ^22825^28982^25104^20998",
      usage |-> "^27835^30274^12539^20581^24247^32173^25345",
      hs6 |-> "3004.90",
      hts10 |-> "3004.90.9290",
      jp_hs9 |-> "3004.90.000",
      chapter |-> "Chapter 30",
      reason |->
        "^25237^19982^37327^12395^12375^12383^12418^12398^21448^12399^23567^22770^29992^12398^24418^29366^12395^12375^12383^21307^34220^21697=3004.90^12290^12499^12479^12511^12531^21092=2106.90^65288^39135^21697^25201^12356^65289^12398^22580^21512^12354^12426^12290JP: 3004.90-000^12290" ],
    [ keywords |->
        <<
          "painting", "^32117^30011", "oil painting", "watercolor", "art print", "lithograph",
          "^12522^12488^12464^12521^12501", "sculpture", "^24427^21051", "antique",
          "^12450^12531^12486^12451^12540^12463", "collectible",
          "^12467^12524^12463^12486^12451^12502^12523"
        >>,
      category |-> "^32654^34899^21697^12539^21454^38598^21697",
      material |-> "^12461^12515^12531^12496^12473 / ^26408 / ^30707 / ^37329^23646",
      usage |-> "^37969^36062^12539^21454^38598",
      hs6 |-> "9701.10",
      hts10 |-> "9701.10.0000",
      jp_hs9 |-> "9701.10.000",
      chapter |-> "Chapter 97",
      reason |->
        "^32117^30011^65288^25163^25551^12365^65289=9701.10^12290^29256^30011=9702^12290^24427^21051=9703^12290^21454^38598^21697=9705^12290^39592^12392^12358=9706^12290JP: 9701.10-000^12290" ]
  >>

\* Brand token -> chapter, in dict insertion order (a later assignment to an existing
\* key keeps its position and replaces its value).
_BRAND_CATEGORY ==
  <<
    <<"honda", "Chapter 87">>, <<"toyota", "Chapter 87">>, <<"nissan", "Chapter 87">>,
    <<"mazda", "Chapter 87">>, <<"subaru", "Chapter 87">>, <<"mitsubishi", "Chapter 87">>,
    <<"suzuki", "Chapter 87">>, <<"daihatsu", "Chapter 87">>, <<"lexus", "Chapter 87">>,
    <<"infiniti", "Chapter 87">>, <<"acura", "Chapter 87">>, <<"scion", "Chapter 87">>,
    <<"ford", "Chapter 87">>, <<"chevrolet", "Chapter 87">>, <<"chevy", "Chapter 87">>,
    <<"gmc", "Chapter 87">>, <<"dodge", "Chapter 87">>, <<"chrysler", "Chapter 87">>,
    <<"jeep", "Chapter 87">>, <<"lincoln", "Chapter 87">>, <<"cadillac", "Chapter 87">>,
    <<"buick", "Chapter 87">>, <<"ram", "Chapter 87">>, <<"tesla", "Chapter 87">>,
    <<"bmw", "Chapter 87">>, <<"mercedes", "Chapter 87">>, <<"benz", "Chapter 87">>,
    <<"audi", "Chapter 87">>, <<"volkswagen", "Chapter 87">>, <<"vw", "Chapter 87">>,
    <<"porsche", "Chapter 87">>, <<"opel", "Chapter 87">>, <<"volvo", "Chapter 87">>,
    <<"saab", "Chapter 87">>, <<"fiat", "Chapter 87">>, <<"alfa romeo", "Chapter 87">>,
    <<"ferrari", "Chapter 87">>, <<"lamborghini", "Chapter 87">>, <<"maserati", "Chapter 87">>,
    <<"peugeot", "Chapter 87">>, <<"renault", "Chapter 87">>, <<"citroen", "Chapter 87">>,
    <<"hyundai", "Chapter 87">>, <<"kia", "Chapter 87">>, <<"daewoo", "Chapter 87">>,
    <<"ssangyong", "Chapter 87">>, <<"land rover", "Chapter 87">>, <<"jaguar", "Chapter 87">>,
    <<"bentley", "Chapter 87">>, <<"rolls-royce", "Chapter 87">>,
    <<"aston martin", "Chapter 87">>, <<"apple", "Chapter 85">>, <<"samsung", "Chapter 85">>,
    <<"google", "Chapter 85">>, <<"sony", "Chapter 85">>, <<"lg", "Chapter 85">>,
    <<"huawei", "Chapter 85">>, <<"xiaomi", "Chapter 85">>, <<"oppo", "Chapter 85">>,
    <<"vivo", "Chapter 85">>, <<"oneplus", "Chapter 85">>, <<"realme", "Chapter 85">>,
    <<"motorola", "Chapter 85">>, <<"nokia", "Chapter 85">>, <<"asus", "Chapter 85">>,
    <<"acer", "Chapter 85">>, <<"lenovo", "Chapter 85">>, <<"dell", "Chapter 85">>,
    <<"hp", "Chapter 85">>, <<"microsoft", "Chapter 85">>, <<"toshiba", "Chapter 85">>,
    <<"sharp", "Chapter 85">>, <<"panasonic", "Chapter 85">>, <<"philips", "Chapter 85">>,
    <<"bose", "Chapter 85">>, <<"jbl", "Chapter 85">>, <<"sennheiser", "Chapter 85">>,
    <<"anker", "Chapter 85">>, <<"belkin", "Chapter 85">>, <<"logitech", "Chapter 85">>,
    <<"razer", "Chapter 85">>, <<"corsair", "Chapter 85">>, <<"kingston", "Chapter 85">>,
    <<"sandisk", "Chapter 85">>, <<"western digital", "Chapter 85">>,
    <<"seagate", "Chapter 85">>, <<"nvidia", "Chapter 85">>, <<"intel", "Chapter 85">>,
    <<"amd", "Chapter 85">>, <<"canon", "Chapter 85">>, <<"nikon", "Chapter 85">>,
    <<"fujifilm", "Chapter 85">>, <<"olympus", "Chapter 85">>, <<"gopro", "Chapter 85">>,
    <<"dji", "Chapter 85">>, <<"garmin", "Chapter 91">>, <<"fitbit", "Chapter 91">>,
    <<"nike", "Chapter 61">>, <<"adidas", "Chapter 61">>, <<"puma", "Chapter 61">>,
    <<"reebok", "Chapter 61">>, <<"new balance", "Chapter 61">>, <<"converse", "Chapter 61">>,
    <<"vans", "Chapter 61">>, <<"under armour", "Chapter 61">>, <<"columbia", "Chapter 61">>,
    <<"the north face", "Chapter 61">>, <<"patagonia", "Chapter 61">>,
    <<"arc'teryx", "Chapter 61">>, <<"uniqlo", "Chapter 61">>, <<"zara", "Chapter 61">>,
    <<"h&m", "Chapter 61">>, <<"gap", "Chapter 61">>, <<"levi's", "Chapter 61">>,
    <<"levis", "Chapter 61">>, <<"wrangler", "Chapter 61">>, <<"calvin klein", "Chapter 61">>,
    <<"ralph lauren", "Chapter 61">>, <<"polo", "Chapter 61">>,
    <<"tommy hilfiger", "Chapter 61">>, <<"lacoste", "Chapter 61">>,
    <<"burberry", "Chapter 61">>, <<"gucci", "Chapter 61">>, <<"prada", "Chapter 61">>,
    <<"louis vuitton", "Chapter 61">>, <<"chanel", "Chapter 61">>, <<"hermes", "Chapter 61">>,
    <<"dior", "Chapter 61">>, <<"balenciaga", "Chapter 61">>, <<"givenchy", "Chapter 61">>,
    <<"versace", "Chapter 61">>, <<"armani", "Chapter 61">>, <<"coach", "Chapter 61">>,
    <<"michael kors", "Chapter 61">>, <<"kate spade", "Chapter 61">>,
    <<"tory burch", "Chapter 61">>, <<"supreme", "Chapter 61">>, <<"stussy", "Chapter 61">>,
    <<"champion", "Chapter 61">>, <<"fila", "Chapter 61">>, <<"asics", "Chapter 61">>,
    <<"mizuno", "Chapter 61">>, <<"skechers", "Chapter 61">>, <<"crocs", "Chapter 61">>,
    <<"shiseido", "Chapter 33">>, <<"sk-ii", "Chapter 33">>, <<"lancome", "Chapter 33">>,
    <<"estee lauder", "Chapter 33">>, <<"clinique", "Chapter 33">>, <<"mac", "Chapter 33">>,
    <<"nars", "Chapter 33">>, <<"bobbi brown", "Chapter 33">>, <<"tom ford", "Chapter 33">>,
    <<"ysl", "Chapter 33">>, <<"maybelline", "Chapter 33">>, <<"loreal", "Chapter 33">>,
    <<"revlon", "Chapter 33">>, <<"covergirl", "Chapter 33">>, <<"neutrogena", "Chapter 33">>,
    <<"olay", "Chapter 33">>, <<"kiehl's", "Chapter 33">>, <<"lush", "Chapter 33">>,
    <<"the body shop", "Chapter 33">>, <<"innisfree", "Chapter 33">>,
    <<"etude", "Chapter 33">>, <<"sulwhasoo", "Chapter 33">>, <<"laneige", "Chapter 33">>,
    <<"citizen", "Chapter 91">>, <<"seiko", "Chapter 91">>, <<"casio", "Chapter 91">>,
    <<"g-shock", "Chapter 91">>, <<"orient", "Chapter 91">>, <<"grand seiko", "Chapter 91">>,
    <<"rolex", "Chapter 91">>, <<"omega", "Chapter 91">>, <<"tag heuer", "Chapter 91">>,
    <<"breitling", "Chapter 91">>, <<"longines", "Chapter 91">>, <<"tissot", "Chapter 91">>,
    <<"hamilton", "Chapter 91">>, <<"swatch", "Chapter 91">>, <<"tudor", "Chapter 91">>,
    <<"cartier", "Chapter 91">>, <<"patek philippe", "Chapter 91">>,
    <<"audemars piguet", "Chapter 91">>, <<"iwc", "Chapter 91">>, <<"panerai", "Chapter 91">>,
    <<"hublot", "Chapter 91">>, <<"jaeger-lecoultre", "Chapter 91">>,
    <<"vacheron constantin", "Chapter 91">>, <<"zenith", "Chapter 91">>,
    <<"movado", "Chapter 91">>, <<"bulova", "Chapter 91">>, <<"timex", "Chapter 91">>,
    <<"fossil", "Chapter 91">>, <<"suunto", "Chapter 91">>, <<"luminox", "Chapter 91">>
  >>

\* Brands known mainly as shoe makers.
_SHOE_PRIMARY_BRANDS ==
  {
    "adidas", "asics", "birkenstock", "converse", "crocs", "dr. martens", "mizuno",
    "new balance", "nike", "puma", "reebok", "skechers", "timberland", "ugg", "under armour",
    "vans"
  }

\* Vocabulary of automotive context words.
_AUTO_CONTEXT_WORDS ==
  {
    "aftermarket", "alternator", "antenna", "assembly", "automotive", "axle", "bearing",
    "block off", "bracket", "brake", "bumper", "caliper", "camshaft", "car", "carburetor",
    "catalytic", "clamp", "clutch", "coil", "compressor", "converter", "crankshaft", "delete",
    "differential", "distributor", "door handle", "engine", "exhaust", "fender", "flywheel",
    "fuel pump", "gasket", "gauge", "genuine", "grille", "harness", "headlight", "hinge",
    "hood", "hose", "ignition", "injector", "intake", "intercooler", "jdm", "latch",
    "manifold", "mirror", "motor", "mount", "muffler", "o-ring", "odometer", "oem", "piston",
    "plug cap", "radiator", "relay", "replacement", "rotor", "seal", "sedan", "sensor",
    "shock", "speedometer", "starter", "steering", "strut", "suspension", "suv", "tachometer",
    "tailgate", "taillight", "timing", "transmission", "truck", "trunk", "turbo", "valve",
    "vehicle", "visor", "weatherstrip", "window regulator", "windshield", "wiper", "wiring"
  }

\* Polysemous keyword -> ordered list of (co-occurrence words, target chapter, base boost).
\* Boosts are in ten-thousandths (5.0 is 50000).
_PHRASE_CONTEXT ==
  <<
    [ word |-> "cap", entries |->
      <<
        [ co_words |->
            {
              "antenna", "block", "delete", "distributor", "engine", "filler", "fuel", "gas",
              "oil", "plug", "radiator", "rotor", "valve"
            },
          target_chapter |-> "Chapter 87", base_boost |-> 50000 ],
        [ co_words |->
            {
              "bottle", "drink", "lid", "water"
            },
          target_chapter |-> "Chapter 39", base_boost |-> 30000 ]
      >> ],
    [ word |-> "plug", entries |->
      <<
        [ co_words |->
            {
              "antenna", "block", "cylinder", "delete", "drain", "engine", "freeze",
              "ignition", "oil", "spark"
            },
          target_chapter |-> "Chapter 87", base_boost |-> 50000 ],
        [ co_words |->
            {
              "adapter", "electric", "outlet", "power", "socket", "usb"
            },
          target_chapter |-> "Chapter 85", base_boost |-> 30000 ]
      >> ],
    [ word |-> "cover", entries |->
      <<
        [ co_words |->
            {
              "bumper", "door", "engine", "fender", "hood", "rocker", "timing", "trunk", "valve"
            },
          target_chapter |-> "Chapter 87", base_boost |-> 50000 ],
        [ co_words |->
            {
              "ipad", "iphone", "phone", "smartphone", "tablet"
            },
          target_chapter |-> "Chapter 42", base_boost |-> 30000 ],
        [ co_words |->
            {
              "bed", "cushion", "pillow", "seat", "sofa"
            },
          target_chapter |-> "Chapter 63", base_boost |-> 30000 ]
      >> ],
    [ word |-> "light", entries |->
      <<
        [ co_words |->
            {
              "brake", "bumper", "dashboard", "fog", "head", "marker", "parking", "reverse",
              "signal", "tail", "turn"
            },
          target_chapter |-> "Chapter 87", base_boost |-> 50000 ],
        [ co_words |->
            {
              "ceiling", "chandelier", "desk", "floor", "pendant", "table", "wall",
              "^12521^12452^12488", "^12521^12531^12503", "^29031^26126"
            },
          target_chapter |-> "Chapter 94", base_boost |-> 30000 ]
      >> ],
    [ word |-> "band", entries |->
      <<
        [ co_words |->
            {
              "apple", "fitbit", "garmin", "silicon", "strap", "watch", "wrist", "^26178^35336"
            },
          target_chapter |-> "Chapter 91", base_boost |-> 40000 ],
        [ co_words |->
            {
              "elastic", "exercise", "hair", "resistance", "rubber"
            },
          target_chapter |-> "Chapter 40", base_boost |-> 20000 ]
      >> ],
    [ word |-> "case", entries |->
      <<
        [ co_words |->
            {
              "airpods", "galaxy", "ipad", "iphone", "phone", "pixel", "smartphone", "tablet",
              "^12473^12510^12507"
            },
          target_chapter |-> "Chapter 42", base_boost |-> 40000 ],
        [ co_words |->
            {
              "ammo", "gear", "gun", "pelican", "rifle", "tool"
            },
          target_chapter |-> "Chapter 42", base_boost |-> 30000 ],
        [ co_words |->
            {
              "bumper", "chain", "differential", "timing", "transfer", "transmission"
            },
          target_chapter |-> "Chapter 87", base_boost |-> 50000 ]
      >> ],
    [ word |-> "shell", entries |->
      <<
        [ co_words |->
            {
              "body", "bumper", "door", "fender", "panel", "quarter", "trunk"
            },
          target_chapter |-> "Chapter 87", base_boost |-> 50000 ],
        [ co_words |->
            {
              "iphone", "laptop", "macbook", "phone"
            },
          target_chapter |-> "Chapter 42", base_boost |-> 30000 ]
      >> ],
    [ word |-> "plate", entries |->
      <<
        [ co_words |->
            {
              "armor", "bracket", "clutch", "license", "mounting", "number", "pressure", "skid"
            },
          target_chapter |-> "Chapter 87", base_boost |-> 50000 ],
        [ co_words |->
            {
              "ceramic", "china", "dinner", "porcelain", "^30399", "^30913^22120",
              "^39135^22120"
            },
          target_chapter |-> "Chapter 69", base_boost |-> 30000 ]
      >> ],
    [ word |-> "ring", entries |->
      <<
        [ co_words |->
            {
              "bearing", "gasket", "o-ring", "piston", "retaining", "seal", "snap",
              "synchronizer"
            },
          target_chapter |-> "Chapter 87", base_boost |-> 50000 ],
        [ co_words |->
            {
              "diamond", "engagement", "gold", "jewelry", "silver", "wedding",
              "^12472^12517^12456^12522^12540", "^25351^36650"
            },
          target_chapter |-> "Chapter 71", base_boost |-> 30000 ]
      >> ],
    [ word |-> "mount", entries |->
      <<
        [ co_words |->
            {
              "engine", "exhaust", "motor", "shock", "strut", "transmission"
            },
          target_chapter |-> "Chapter 87", base_boost |-> 50000 ],
        [ co_words |->
            {
              "camera", "monitor", "tripod", "tv", "wall"
            },
          target_chapter |-> "Chapter 85", base_boost |-> 20000 ]
      >> ],
    [ word |-> "brush", entries |->
      <<
        [ co_words |->
            {
              "alternator", "carbon", "dynamo", "generator", "motor", "starter"
            },
          target_chapter |-> "Chapter 87", base_boost |-> 50000 ],
        [ co_words |->
            {
              "hair", "makeup", "paint", "tooth", "^12504^12450^12502^12521^12471",
              "^27503^12502^12521^12471"
            },
          target_chapter |-> "Chapter 96", base_boost |-> 30000 ]
      >> ],
    [ word |-> "mirror", entries |->
      <<
        [ co_words |->
            {
              "blind spot", "door", "rear", "side", "towing", "view", "wing"
            },
          target_chapter |-> "Chapter 87", base_boost |-> 50000 ],
        [ co_words |->
            {
              "bathroom", "compact", "makeup", "vanity", "wall"
            },
          target_chapter |-> "Chapter 70", base_boost |-> 20000 ]
      >> ],
    [ word |-> "filter", entries |->
      <<
        [ co_words |->
            {
              "air", "cabin", "engine", "fuel", "intake", "oil", "transmission"
            },
          target_chapter |-> "Chapter 87", base_boost |-> 50000 ],
        [ co_words |->
            {
              "coffee", "hepa", "vacuum", "water"
            },
          target_chapter |-> "Chapter 84", base_boost |-> 20000 ]
      >> ],
    [ word |-> "pump", entries |->
      <<
        [ co_words |->
            {
              "brake", "coolant", "fuel", "oil", "power steering", "washer", "water"
            },
          target_chapter |-> "Chapter 87", base_boost |-> 50000 ],
        [ co_words |->
            {
              "air", "aquarium", "bicycle", "pool"
            },
          target_chapter |-> "Chapter 84", base_boost |-> 20000 ]
      >> ],
    [ word |-> "pen", entries |->
      <<
        [ co_words |->
            {
              "ball", "ballpoint", "fountain", "marker", "^12506^12531",
              "^12508^12540^12523^12506^12531", "^19975^24180^31558", "^37467^31558"
            },
          target_chapter |-> "Chapter 96", base_boost |-> 30000 ]
      >> ]
  >>

\* Leaf category name -> chapter, in dict order.
_EBAY_LEAF_CATEGORY_MAP ==
  <<
    <<"wristwatches", "Chapter 91">>, <<"pocket watches", "Chapter 91">>,
    <<"watch accessories", "Chapter 91">>, <<"watch bands", "Chapter 91">>,
    <<"watch parts", "Chapter 91">>, <<"watch cases", "Chapter 91">>,
    <<"watch tools & repair kits", "Chapter 91">>, <<"watches", "Chapter 91">>,
    <<"clocks", "Chapter 91">>, <<"clock parts & tools", "Chapter 91">>,
    <<"wall clocks", "Chapter 91">>, <<"alarm clocks & clock radios", "Chapter 91">>,
    <<"mantel & shelf clocks", "Chapter 91">>, <<"grandfather clocks", "Chapter 91">>,
    <<"cuckoo clocks", "Chapter 91">>, <<"rings", "Chapter 71">>,
    <<"necklaces & pendants", "Chapter 71">>, <<"earrings", "Chapter 71">>,
    <<"bracelets", "Chapter 71">>, <<"brooches & pins", "Chapter 71">>,
    <<"fine jewelry sets", "Chapter 71">>, <<"fine anklets", "Chapter 71">>,
    <<"fine charms & charm bracelets", "Chapter 71">>,
    <<"fashion necklaces & pendants", "Chapter 71">>, <<"fashion earrings", "Chapter 71">>,
    <<"fashion bracelets", "Chapter 71">>, <<"fashion rings", "Chapter 71">>,
    <<"fashion brooches & pins", "Chapter 71">>, <<"fashion jewelry sets", "Chapter 71">>,
    <<"body jewelry", "Chapter 71">>, <<"charms & charm bracelets", "Chapter 71">>,
    <<"loose diamonds & gemstones", "Chapter 71">>, <<"loose beads", "Chapter 71">>,
    <<"men's shirts", "Chapter 62">>, <<"men's t-shirts", "Chapter 61">>,
    <<"men's pants", "Chapter 62">>, <<"men's jeans", "Chapter 62">>,
    <<"men's shorts", "Chapter 62">>, <<"men's coats, jackets & vests", "Chapter 62">>,
    <<"men's sweaters", "Chapter 61">>, <<"men's hoodies & sweatshirts", "Chapter 61">>,
    <<"men's suits & suit separates", "Chapter 62">>, <<"men's activewear", "Chapter 61">>,
    <<"men's underwear", "Chapter 61">>, <<"men's socks", "Chapter 61">>,
    <<"men's sleepwear & robes", "Chapter 62">>, <<"men's swimwear", "Chapter 62">>,
    <<"men's uniforms", "Chapter 62">>, <<"men's costumes", "Chapter 62">>,
    <<"men's clothing", "Chapter 62">>, <<"women's dresses", "Chapter 62">>,
    <<"women's tops", "Chapter 62">>, <<"women's t-shirts", "Chapter 61">>,
    <<"women's pants", "Chapter 62">>, <<"women's jeans", "Chapter 62">>,
    <<"women's shorts", "Chapter 62">>, <<"women's coats, jackets & vests", "Chapter 62">>,
    <<"women's sweaters", "Chapter 61">>, <<"women's hoodies & sweatshirts", "Chapter 61">>,
    <<"women's skirts", "Chapter 62">>, <<"women's suits & suit separates", "Chapter 62">>,
    <<"women's activewear", "Chapter 61">>, <<"women's intimates & sleepwear", "Chapter 62">>,
    <<"women's swimwear", "Chapter 62">>, <<"women's maternity", "Chapter 62">>,
    <<"women's costumes", "Chapter 62">>, <<"women's clothing", "Chapter 62">>,
    <<"boys' clothing", "Chapter 62">>, <<"girls' clothing", "Chapter 62">>,
    <<"baby clothing", "Chapter 62">>, <<"unisex kids' clothing", "Chapter 62">>,
    <<"men's shoes", "Chapter 64">>, <<"women's shoes", "Chapter 64">>,
    <<"boys' shoes", "Chapter 64">>, <<"girls' shoes", "Chapter 64">>,
    <<"baby shoes", "Chapter 64">>, <<"unisex shoes", "Chapter 64">>,
    <<"athletic shoes", "Chapter 64">>, <<"sneakers", "Chapter 64">>,
    <<"boots", "Chapter 64">>, <<"sandals", "Chapter 64">>, <<"slippers", "Chapter 64">>,
    <<"flats", "Chapter 64">>, <<"heels", "Chapter 64">>,
    <<"loafers & slip ons", "Chapter 64">>, <<"oxfords & dress shoes", "Chapter 64">>,
    <<"women's bags & handbags", "Chapter 42">>, <<"men's bags", "Chapter 42">>,
    <<"backpacks", "Chapter 42">>, <<"briefcases & laptop bags", "Chapter 42">>,
    <<"wallets", "Chapter 42">>, <<"coin purses", "Chapter 42">>,
    <<"travel luggage", "Chapter 42">>, <<"luggage", "Chapter 42">>,
    <<"suitcases", "Chapter 42">>, <<"duffel bags", "Chapter 42">>,
    <<"tote bags", "Chapter 42">>, <<"crossbody bags", "Chapter 42">>,
    <<"clutch bags", "Chapter 42">>, <<"messenger bags", "Chapter 42">>,
    <<"fanny packs", "Chapter 42">>, <<"belts", "Chapter 42">>,
    <<"key chains, rings & finders", "Chapter 73">>, <<"sunglasses", "Chapter 90">>,
    <<"eyeglass frames", "Chapter 90">>, <<"hats", "Chapter 65">>, <<"caps", "Chapter 65">>,
    <<"baseball caps", "Chapter 65">>, <<"beanies", "Chapter 65">>,
    <<"sun hats & visors", "Chapter 65">>, <<"scarves & wraps", "Chapter 62">>,
    <<"gloves & mittens", "Chapter 62">>, <<"ties, bow ties & cravats", "Chapter 62">>,
    <<"umbrellas", "Chapter 66">>, <<"hair accessories", "Chapter 96">>,
    <<"watches, parts & accessories", "Chapter 91">>,
    <<"cell phones & smartphones", "Chapter 85">>,
    <<"cell phone cases, covers & skins", "Chapter 42">>,
    <<"cell phone screen protectors", "Chapter 39">>,
    <<"cell phone chargers & cradles", "Chapter 85">>,
    <<"cell phone batteries", "Chapter 85">>, <<"cell phone cables & adapters", "Chapter 85">>,
    <<"headsets", "Chapter 85">>, <<"cell phone accessories", "Chapter 85">>,
    <<"smart watches", "Chapter 91">>, <<"smart watch accessories", "Chapter 91">>,
    <<"smart watch bands", "Chapter 91">>, <<"laptops & netbooks", "Chapter 84">>,
    <<"desktops & all-in-ones", "Chapter 84">>, <<"tablets & ereaders", "Chapter 84">>,
    <<"monitors, projectors & accs", "Chapter 85">>, <<"monitors", "Chapter 85">>,
    <<"projectors", "Chapter 85">>, <<"printers, scanners & supplies", "Chapter 84">>,
    <<"printers", "Chapter 84">>, <<"scanners", "Chapter 84">>,
    <<"keyboards & mice", "Chapter 84">>, <<"computer components & parts", "Chapter 84">>,
    <<"drives, storage & blank media", "Chapter 84">>, <<"networking", "Chapter 85">>,
    <<"routers", "Chapter 85">>, <<"switches & hubs", "Chapter 85">>,
    <<"power protection, distribution", "Chapter 85">>,
    <<"computer cables & connectors", "Chapter 85">>,
    <<"tv, video & home audio", "Chapter 85">>, <<"televisions", "Chapter 85">>,
    <<"home theater projectors", "Chapter 85">>, <<"home audio", "Chapter 85">>,
    <<"speakers", "Chapter 85">>, <<"headphones", "Chapter 85">>, <<"earbuds", "Chapter 85">>,
    <<"portable audio & headphones", "Chapter 85">>, <<"mp3 players", "Chapter 85">>,
    <<"portable cd players", "Chapter 85">>, <<"vehicle electronics & gps", "Chapter 85">>,
    <<"car audio", "Chapter 85">>, <<"car video", "Chapter 85">>,
    <<"gps units", "Chapter 85">>, <<"multipurpose batteries & power", "Chapter 85">>,
    <<"batteries", "Chapter 85">>, <<"video game consoles", "Chapter 95">>,
    <<"video games", "Chapter 95">>, <<"digital cameras", "Chapter 90">>,
    <<"film cameras", "Chapter 90">>, <<"camcorders", "Chapter 85">>,
    <<"camera drones", "Chapter 88">>, <<"lenses & filters", "Chapter 90">>,
    <<"flashes & flash accessories", "Chapter 90">>, <<"tripods & monopods", "Chapter 90">>,
    <<"camera bags & cases", "Chapter 42">>, <<"binoculars & telescopes", "Chapter 90">>,
    <<"binoculars & monoculars", "Chapter 90">>, <<"telescopes", "Chapter 90">>,
    <<"microscopes", "Chapter 90">>, <<"car & truck parts & accessories", "Chapter 87">>,
    <<"car & truck parts", "Chapter 87">>, <<"motorcycle parts", "Chapter 87">>,
    <<"atv, side-by-side & utv parts", "Chapter 87">>, <<"boat parts", "Chapter 89">>,
    <<"automotive tools & supplies", "Chapter 82">>,
    <<"automotive paints & supplies", "Chapter 32">>,
    <<"oils, fluids, lubricants & sealers", "Chapter 27">>, <<"tires & wheels", "Chapter 40">>,
    <<"brakes & brake parts", "Chapter 87">>, <<"engine cooling parts", "Chapter 87">>,
    <<"engines & components", "Chapter 87">>, <<"exhaust parts", "Chapter 87">>,
    <<"exterior parts & accessories", "Chapter 87">>,
    <<"interior parts & accessories", "Chapter 87">>, <<"lighting & lamps", "Chapter 87">>,
    <<"starters, alternators, ecus & wiring", "Chapter 87">>,
    <<"steering & suspension", "Chapter 87">>, <<"transmission & drivetrain", "Chapter 87">>,
    <<"air & fuel delivery", "Chapter 87">>, <<"ignition systems & components", "Chapter 87">>,
    <<"filters", "Chapter 87">>, <<"furniture", "Chapter 94">>,
    <<"sofas, armchairs & couches", "Chapter 94">>, <<"tables", "Chapter 94">>,
    <<"chairs", "Chapter 94">>, <<"beds & mattresses", "Chapter 94">>,
    <<"bookcases & shelving", "Chapter 94">>, <<"desks & tables", "Chapter 94">>,
    <<"cabinets & cupboards", "Chapter 94">>,
    <<"lamps, lighting & ceiling fans", "Chapter 94">>,
    <<"ceiling lights & chandeliers", "Chapter 94">>, <<"wall fixtures", "Chapter 94">>,
    <<"table lamps", "Chapter 94">>, <<"floor lamps", "Chapter 94">>,
    <<"rugs & carpets", "Chapter 57">>, <<"window treatments & hardware", "Chapter 63">>,
    <<"curtains & drapes", "Chapter 63">>, <<"bedding", "Chapter 63">>,
    <<"sheets & pillowcases", "Chapter 63">>, <<"comforters & sets", "Chapter 63">>,
    <<"quilts & bedspreads", "Chapter 63">>, <<"blankets & throws", "Chapter 63">>,
    <<"pillows", "Chapter 63">>, <<"bath towels", "Chapter 63">>, <<"bath", "Chapter 63">>,
    <<"kitchen, dining & bar", "Chapter 69">>, <<"dinnerware & serveware", "Chapter 69">>,
    <<"cookware", "Chapter 73">>, <<"bakeware", "Chapter 73">>,
    <<"flatware, knives & cutlery", "Chapter 82">>,
    <<"small kitchen appliances", "Chapter 85">>, <<"major appliances", "Chapter 84">>,
    <<"refrigerators & freezers", "Chapter 84">>, <<"washers & dryers", "Chapter 84">>,
    <<"dishwashers", "Chapter 84">>, <<"vacuums", "Chapter 85">>,
    <<"candles & home fragrance", "Chapter 34">>, <<"home d^00233cor", "Chapter 94">>,
    <<"vases", "Chapter 69">>, <<"picture frames", "Chapter 44">>, <<"mirrors", "Chapter 70">>,
    <<"yard, garden & outdoor living", "Chapter 94">>, <<"outdoor furniture", "Chapter 94">>,
    <<"garden tools & equipment", "Chapter 82">>, <<"lawn mowers", "Chapter 84">>,
    <<"grills & outdoor cooking", "Chapter 73">>, <<"storage & organization", "Chapter 39">>,
    <<"cleaning supplies", "Chapter 34">>, <<"cycling", "Chapter 87">>,
    <<"bicycles", "Chapter 87">>, <<"cycling parts & components", "Chapter 87">>,
    <<"golf", "Chapter 95">>, <<"golf clubs", "Chapter 95">>, <<"golf bags", "Chapter 42">>,
    <<"tennis & racquet sports", "Chapter 95">>, <<"fishing", "Chapter 95">>,
    <<"hunting", "Chapter 93">>, <<"camping & hiking", "Chapter 63">>,
    <<"tents & canopies", "Chapter 63">>, <<"sleeping bags", "Chapter 94">>,
    <<"fitness, running & yoga", "Chapter 95">>,
    <<"exercise & fitness equipment", "Chapter 95">>, <<"team sports", "Chapter 95">>,
    <<"water sports", "Chapter 95">>, <<"winter sports", "Chapter 95">>,
    <<"skiing & snowboarding", "Chapter 95">>,
    <<"skateboarding & longboarding", "Chapter 95">>,
    <<"boxing & martial arts", "Chapter 95">>, <<"outdoor sports", "Chapter 95">>,
    <<"action figures", "Chapter 95">>, <<"dolls & bears", "Chapter 95">>,
    <<"dolls", "Chapter 95">>, <<"stuffed animals", "Chapter 95">>,
    <<"building toys", "Chapter 95">>, <<"lego sets & packs", "Chapter 95">>,
    <<"diecast & toy vehicles", "Chapter 95">>, <<"model railroads & trains", "Chapter 95">>,
    <<"rc model vehicles, toys & control line", "Chapter 95">>, <<"games", "Chapter 95">>,
    <<"board & traditional games", "Chapter 95">>, <<"card games & poker", "Chapter 95">>,
    <<"puzzles", "Chapter 95">>, <<"outdoor toys & structures", "Chapter 95">>,
    <<"educational", "Chapter 95">>, <<"preschool toys & pretend play", "Chapter 95">>,
    <<"electronic, battery & wind-up", "Chapter 95">>, <<"toy vehicles", "Chapter 95">>,
    <<"models & kits", "Chapter 95">>, <<"hobby rc cars, trucks & motorcycles", "Chapter 95">>,
    <<"fragrances", "Chapter 33">>, <<"men's fragrances", "Chapter 33">>,
    <<"women's fragrances", "Chapter 33">>, <<"unisex fragrances", "Chapter 33">>,
    <<"skin care", "Chapter 33">>, <<"makeup", "Chapter 33">>, <<"face makeup", "Chapter 33">>,
    <<"eye makeup", "Chapter 33">>, <<"lip makeup", "Chapter 33">>,
    <<"nail care, manicure & pedicure", "Chapter 33">>, <<"nail polish", "Chapter 33">>,
    <<"hair care & styling", "Chapter 33">>, <<"shampoos & conditioners", "Chapter 34">>,
    <<"bath & body", "Chapter 33">>, <<"oral care", "Chapter 96">>,
    <<"toothbrushes", "Chapter 96">>, <<"shaving & hair removal", "Chapter 82">>,
    <<"razors & razor blades", "Chapter 82">>, <<"health care", "Chapter 30">>,
    <<"vitamins & dietary supplements", "Chapter 21">>, <<"medical & mobility", "Chapter 90">>,
    <<"massage equipment", "Chapter 90">>, <<"vision care", "Chapter 90">>,
    <<"guitars & basses", "Chapter 92">>, <<"guitars", "Chapter 92">>,
    <<"bass guitars", "Chapter 92">>, <<"drums & percussion", "Chapter 92">>,
    <<"pianos, keyboards & organs", "Chapter 92">>, <<"brass", "Chapter 92">>,
    <<"woodwinds", "Chapter 92">>, <<"string", "Chapter 92">>,
    <<"pro audio equipment", "Chapter 85">>, <<"microphones", "Chapter 85">>,
    <<"amplifiers", "Chapter 85">>, <<"dj equipment", "Chapter 85">>,
    <<"stage lighting & effects", "Chapter 85">>, <<"books", "Chapter 49">>,
    <<"fiction books", "Chapter 49">>, <<"nonfiction books", "Chapter 49">>,
    <<"textbooks, education & reference", "Chapter 49">>,
    <<"children's & young adults", "Chapter 49">>, <<"magazines", "Chapter 49">>,
    <<"comic books", "Chapter 49">>, <<"dvds & blu-ray discs", "Chapter 85">>,
    <<"vhs tapes", "Chapter 85">>, <<"cds", "Chapter 85">>, <<"vinyl records", "Chapter 85">>,
    <<"cassettes", "Chapter 85">>, <<"art", "Chapter 97">>, <<"paintings", "Chapter 97">>,
    <<"art prints", "Chapter 49">>, <<"art photographs", "Chapter 49">>,
    <<"sculptures & carvings", "Chapter 97">>, <<"antiques", "Chapter 97">>,
    <<"coins & paper money", "Chapter 71">>, <<"coins", "Chapter 71">>,
    <<"paper money", "Chapter 49">>, <<"stamps", "Chapter 49">>,
    <<"sports memorabilia", "Chapter 95">>, <<"trading cards", "Chapter 49">>,
    <<"pottery & glass", "Chapter 69">>, <<"pottery & china", "Chapter 69">>,
    <<"glass", "Chapter 70">>, <<"decorative collectibles", "Chapter 69">>,
    <<"figurines", "Chapter 69">>, <<"heavy equipment, parts & attachments", "Chapter 84">>,
    <<"heavy equipment", "Chapter 84">>, <<"cnc, metalworking & manufacturing", "Chapter 84">>,
    <<"office", "Chapter 84">>, <<"printing & graphic arts", "Chapter 84">>,
    <<"restaurant & food service", "Chapter 84">>,
    <<"test, measurement & inspection", "Chapter 90">>,
    <<"electrical equipment & supplies", "Chapter 85">>,
    <<"hydraulics, pneumatics, pumps & plumbing", "Chapter 84">>,
    <<"industrial automation & motion controls", "Chapter 84">>,
    <<"material handling", "Chapter 84">>,
    <<"light industrial equipment & tools", "Chapter 84">>, <<"sewing", "Chapter 84">>,
    <<"sewing machines", "Chapter 84">>, <<"fabric", "Chapter 50">>, <<"yarn", "Chapter 56">>,
    <<"needlecrafts & yarn", "Chapter 56">>, <<"beads & jewelry making", "Chapter 71">>,
    <<"scrapbooking & paper crafts", "Chapter 48">>, <<"dog supplies", "Chapter 42">>,
    <<"cat supplies", "Chapter 42">>, <<"fish & aquariums", "Chapter 84">>,
    <<"bird supplies", "Chapter 42">>, <<"small animal supplies", "Chapter 42">>,
    <<"strollers & accessories", "Chapter 87">>, <<"car safety seats", "Chapter 94">>,
    <<"baby feeding", "Chapter 39">>, <<"baby bottles", "Chapter 39">>,
    <<"diapering", "Chapter 96">>, <<"nursery furniture", "Chapter 94">>,
    <<"baby gear", "Chapter 94">>, <<"baby toys", "Chapter 95">>, <<"coffee", "Chapter 09">>,
    <<"tea", "Chapter 09">>, <<"gourmet chocolates", "Chapter 18">>,
    <<"candy, gum & chocolate", "Chapter 17">>,
    <<"spices, seasonings & extracts", "Chapter 09">>,
    <<"pens & writing instruments", "Chapter 96">>, <<"lighters", "Chapter 96">>,
    <<"knives, swords & blades", "Chapter 82">>, <<"tool sets & kits", "Chapter 82">>,
    <<"hand tools", "Chapter 82">>, <<"power tools", "Chapter 84">>,
    <<"air tools", "Chapter 84">>
  >>

\* Parent category name -> chapter.
_EBAY_PARENT_CATEGORY_MAP ==
  <<
    <<"jewelry & watches", "Chapter 71">>, <<"watches, parts & accessories", "Chapter 91">>,
    <<"fine jewelry", "Chapter 71">>, <<"fashion jewelry", "Chapter 71">>,
    <<"clothing, shoes & accessories", "Chapter 62">>, <<"men", "Chapter 62">>,
    <<"women", "Chapter 62">>, <<"cell phones & accessories", "Chapter 85">>,
    <<"computers/tablets & networking", "Chapter 84">>,
    <<"computers, tablets & networking", "Chapter 84">>,
    <<"consumer electronics", "Chapter 85">>, <<"cameras & photo", "Chapter 90">>,
    <<"ebay motors", "Chapter 87">>, <<"parts & accessories", "Chapter 87">>,
    <<"home & garden", "Chapter 94">>, <<"sporting goods", "Chapter 95">>,
    <<"toys & hobbies", "Chapter 95">>, <<"health & beauty", "Chapter 33">>,
    <<"musical instruments & gear", "Chapter 92">>,
    <<"books, comics & magazines", "Chapter 49">>, <<"collectibles & art", "Chapter 97">>,
    <<"business & industrial", "Chapter 84">>, <<"crafts", "Chapter 48">>,
    <<"pet supplies", "Chapter 42">>, <<"baby", "Chapter 62">>,
    <<"movies & tv", "Chapter 85">>, <<"music", "Chapter 85">>
  >>

\* Item Specifics type value -> chapter (the literal names "keyboard" twice; the later
\* value, Chapter 92, is the one the dict holds).
_ITEM_TYPE_TO_CHAPTER ==
  <<
    <<"wristwatch", "Chapter 91">>, <<"wristwatches", "Chapter 91">>,
    <<"analog watch", "Chapter 91">>, <<"digital watch", "Chapter 91">>,
    <<"smartwatch", "Chapter 91">>, <<"pocket watch", "Chapter 91">>,
    <<"clock", "Chapter 91">>, <<"watch", "Chapter 91">>, <<"dive watch", "Chapter 91">>,
    <<"dress watch", "Chapter 91">>, <<"sport watch", "Chapter 91">>,
    <<"chronograph", "Chapter 91">>, <<"necklace", "Chapter 71">>,
    <<"bracelet", "Chapter 71">>, <<"ring", "Chapter 71">>, <<"earring", "Chapter 71">>,
    <<"earrings", "Chapter 71">>, <<"pendant", "Chapter 71">>, <<"brooch", "Chapter 71">>,
    <<"anklet", "Chapter 71">>, <<"charm", "Chapter 71">>, <<"smartphone", "Chapter 85">>,
    <<"cell phone", "Chapter 85">>, <<"mobile phone", "Chapter 85">>,
    <<"tablet", "Chapter 84">>, <<"laptop", "Chapter 84">>, <<"desktop", "Chapter 84">>,
    <<"headphones", "Chapter 85">>, <<"earbuds", "Chapter 85">>, <<"speaker", "Chapter 85">>,
    <<"camera", "Chapter 90">>, <<"digital camera", "Chapter 90">>,
    <<"television", "Chapter 85">>, <<"monitor", "Chapter 85">>, <<"printer", "Chapter 84">>,
    <<"scanner", "Chapter 84">>, <<"router", "Chapter 85">>, <<"keyboard", "Chapter 92">>,
    <<"mouse", "Chapter 84">>, <<"shirt", "Chapter 62">>, <<"t-shirt", "Chapter 61">>,
    <<"jacket", "Chapter 62">>, <<"coat", "Chapter 62">>, <<"pants", "Chapter 62">>,
    <<"jeans", "Chapter 62">>, <<"dress", "Chapter 62">>, <<"skirt", "Chapter 62">>,
    <<"sweater", "Chapter 61">>, <<"hoodie", "Chapter 61">>, <<"suit", "Chapter 62">>,
    <<"blazer", "Chapter 62">>, <<"shorts", "Chapter 62">>, <<"vest", "Chapter 62">>,
    <<"sneakers", "Chapter 64">>, <<"boots", "Chapter 64">>, <<"sandals", "Chapter 64">>,
    <<"loafers", "Chapter 64">>, <<"athletic shoes", "Chapter 64">>,
    <<"running shoes", "Chapter 64">>, <<"heels", "Chapter 64">>, <<"flats", "Chapter 64">>,
    <<"oxfords", "Chapter 64">>, <<"slippers", "Chapter 64">>, <<"handbag", "Chapter 42">>,
    <<"backpack", "Chapter 42">>, <<"wallet", "Chapter 42">>, <<"tote bag", "Chapter 42">>,
    <<"crossbody bag", "Chapter 42">>, <<"clutch", "Chapter 42">>,
    <<"briefcase", "Chapter 42">>, <<"suitcase", "Chapter 42">>,
    <<"duffel bag", "Chapter 42">>, <<"messenger bag", "Chapter 42">>,
    <<"action figure", "Chapter 95">>, <<"doll", "Chapter 95">>,
    <<"board game", "Chapter 95">>, <<"puzzle", "Chapter 95">>,
    <<"stuffed animal", "Chapter 95">>, <<"building set", "Chapter 95">>,
    <<"brake pad", "Chapter 87">>, <<"air filter", "Chapter 87">>,
    <<"headlight", "Chapter 87">>, <<"bumper", "Chapter 87">>, <<"spark plug", "Chapter 87">>,
    <<"alternator", "Chapter 87">>, <<"sofa", "Chapter 94">>, <<"table", "Chapter 94">>,
    <<"chair", "Chapter 94">>, <<"desk", "Chapter 94">>, <<"bed", "Chapter 94">>,
    <<"bookcase", "Chapter 94">>, <<"perfume", "Chapter 33">>,
    <<"eau de toilette", "Chapter 33">>, <<"eau de parfum", "Chapter 33">>,
    <<"cologne", "Chapter 33">>, <<"lipstick", "Chapter 33">>, <<"mascara", "Chapter 33">>,
    <<"foundation", "Chapter 33">>, <<"concealer", "Chapter 33">>,
    <<"moisturizer", "Chapter 33">>, <<"serum", "Chapter 33">>, <<"sunscreen", "Chapter 33">>,
    <<"acoustic guitar", "Chapter 92">>, <<"electric guitar", "Chapter 92">>,
    <<"bass guitar", "Chapter 92">>, <<"drum set", "Chapter 92">>, <<"violin", "Chapter 92">>,
    <<"trumpet", "Chapter 92">>, <<"flute", "Chapter 92">>, <<"hat", "Chapter 65">>,
    <<"cap", "Chapter 65">>, <<"baseball cap", "Chapter 65">>, <<"beanie", "Chapter 65">>
  >>

(***************************************************************************)
(* Python str operations used by the code.                                 *)
(***************************************************************************)
CharAt(s, i) == SubSeq(s, i, i)

ASCII_UPPER == "ABCDEFGHIJKLMNOPQRSTUVWXYZ"

ASCII_LOWER == "abcdefghijklmnopqrstuvwxyz"

ASCII_DIGITS == "0123456789"

CharsOf(s) == { CharAt(s, i) : i \in 1..Len(s) }

UPPER_CHARS == CharsOf(ASCII_UPPER)

LOWER_CHARS == CharsOf(ASCII_LOWER)

DIGIT_CHARS == CharsOf(ASCII_DIGITS)

\* \w of the re module: letters, digits, underscore; ^ opens a letter outside ASCII.
WORD_CHARS == UPPER_CHARS \cup LOWER_CHARS \cup DIGIT_CHARS \cup {"_", "^"}

IsDigit(c) == c \in DIGIT_CHARS

IsWordChar(c) == c \in WORD_CHARS

IsSpace(c) == c \in {" ", "\t", "\n", "\r"}

LOWER_OF ==
  [ c \in UPPER_CHARS |-> CharAt(ASCII_LOWER, CHOOSE i \in 1..26 : CharAt(ASCII_UPPER, i) = c) ]

lower_char(c) == IF c \in UPPER_CHARS THEN LOWER_OF[c] ELSE c

RECURSIVE lower_range(_, _, _)
lower_range(s, i, j) ==
  IF i > j THEN ""
  ELSE IF i = j THEN lower_char(CharAt(s, i))
  ELSE lower_range(s, i, (i + j) \div 2) \o lower_range(s, (i + j) \div 2 + 1, j)

str_lower(s) == lower_range(s, 1, Len(s))

str_strip(s) ==
  LET keep == { i \in 1..Len(s) : ~IsSpace(CharAt(s, i)) }
  IN  IF keep = {} THEN ""
      ELSE SubSeq(s, CHOOSE i \in keep : \A j \in keep : i <= j,
                     CHOOSE i \in keep : \A j \in keep : i >= j)

\* needle in haystack
str_in(needle, haystack) ==
  \E i \in 1..(Len(haystack) - Len(needle) + 1) :
    SubSeq(haystack, i, i + Len(needle) - 1) = needle

\* s.split(sep) for a one-character separator
str_split(s, sep) ==
  LET at     == { i \in 1..Len(s) : CharAt(s, i) = sep }
      pos(k) == IF k = 0 THEN 0
                ELSE IF k = Cardinality(at) + 1 THEN Len(s) + 1
                ELSE CHOOSE i \in at : Cardinality({ j \in at : j < i }) = k - 1
  IN  [ k \in 1..(Cardinality(at) + 1) |-> SubSeq(s, pos(k - 1) + 1, pos(k) - 1) ]

str_isascii_alpha(s) ==
  /\ s # ""
  /\ \A i \in 1..Len(s) : CharAt(s, i) \in UPPER_CHARS \cup LOWER_CHARS

\* A dict is a sequence of <<key, value>> in dict order: key in table, table[key]
HasKey(table, key) == \E i \in 1..Len(table) : table[i][1] = key

Lookup(table, key) == table[CHOOSE i \in 1..Len(table) : table[i][1] = key][2]

\* d.get(key, default)
dict_get_or(d, key, default) == IF HasKey(d, key) THEN Lookup(d, key) ELSE default

\* d.get(key, "")
dict_get(d, key) == dict_get_or(d, key, "")

Reverse(seq) == [ i \in 1..Len(seq) |-> seq[Len(seq) + 1 - i] ]

Last(seq) == seq[Len(seq)]

(***************************************************************************)
(* Marketplace Resolver.                                                   *)
(***************************************************************************)
\* a variant that forgets levels.reverse(): shallowest first
_extract_all_category_levels_unreversed(category_path) ==
  IF category_path = "" THEN << >>
  ELSE LET raw   == str_split(category_path, ">")
           parts == SelectSeq(raw, LAMBDA p : str_strip(p) # "")
       IN  [ i \in 1..Len(parts) |-> str_lower(str_strip(parts[i])) ]

_extract_all_category_levels(category_path) ==
  IF category_path = "" THEN << >>
  ELSE LET raw   == str_split(category_path, ">")
           parts == SelectSeq(raw, LAMBDA p : str_strip(p) # "")
       IN  Reverse([ i \in 1..Len(parts) |-> str_lower(str_strip(parts[i])) ])

SPECIFICS_TYPE_FIELDS == << "Type", "Category", "Product Type", "Sub-Type" >>

MOVEMENT_VALUES == { "quartz", "automatic", "mechanical", "solar", "kinetic", "eco-drive" }

FirstOf(S) == CHOOSE k \in S : \A j \in S : k <= j

\* category_path.split(">")[-1].strip()
leaf_shown(category_path) == str_strip(Last(str_split(category_path, ">")))

\* item_specifics.get(field_name, "").strip().lower()
specifics_value(item_specifics, field_name) ==
  str_lower(str_strip(dict_get(item_specifics, field_name)))

\* lines 2558-2566: the leaf is a key of the leaf table
leaf_exact_match(levels, category_path) ==
  LET leaf == IF levels # << >> THEN levels[1] ELSE ""
  IN  IF leaf # "" /\ HasKey(_EBAY_LEAF_CATEGORY_MAP, leaf)
        THEN LET chapter == Lookup(_EBAY_LEAF_CATEGORY_MAP, leaf)
             IN  << chapter, F(100),
                    "eBay^12459^12486^12468^12522(^12522^12540^12501): "
                      \o leaf_shown(category_path) \o " ^08594 " \o chapter >>
        ELSE None

\* lines 2569-2578: the first key of the leaf table, in dict order, that holds the leaf or
\* that the leaf holds
leaf_partial_match(levels, category_path) ==
  LET leaf    == IF levels # << >> THEN levels[1] ELSE ""
      partial == { i \in 1..Len(_EBAY_LEAF_CATEGORY_MAP) :
                     \/ str_in(_EBAY_LEAF_CATEGORY_MAP[i][1], leaf)
                     \/ str_in(leaf, _EBAY_LEAF_CATEGORY_MAP[i][1]) }
  IN  IF leaf # "" /\ partial # {}
        THEN LET cat_key == _EBAY_LEAF_CATEGORY_MAP[FirstOf(partial)][1]
                 chapter == _EBAY_LEAF_CATEGORY_MAP[FirstOf(partial)][2]
             IN  << chapter, F(90),
                    "eBay^12459^12486^12468^12522(^12522^12540^12501^37096^20998^19968^33268): "
                      \o leaf_shown(category_path) \o " ^08776 " \o cat_key
                      \o " ^08594 " \o chapter >>
        ELSE None

\* lines 2581-2595: for level_name in levels[1:], the leaf table before the parent table
ancestor_match(levels) ==
  LET upper == { i \in 2..Len(levels) :
                   \/ HasKey(_EBAY_LEAF_CATEGORY_MAP, levels[i])
                   \/ HasKey(_EBAY_PARENT_CATEGORY_MAP, levels[i]) }
  IN  IF upper = {} THEN None
      ELSE LET level_name == levels[FirstOf(upper)]
           IN  IF HasKey(_EBAY_LEAF_CATEGORY_MAP, level_name)
                 THEN LET chapter == Lookup(_EBAY_LEAF_CATEGORY_MAP, level_name)
                      IN  << chapter, F(70),
                             "eBay^12459^12486^12468^12522(^19978^20301): "
                               \o level_name \o " ^08594 " \o chapter >>
                 ELSE LET chapter == Lookup(_EBAY_PARENT_CATEGORY_MAP, level_name)
                      IN  << chapter, F(60),
                             "eBay^12459^12486^12468^12522(^35242): "
                               \o level_name \o " ^08594 " \o chapter >>

\* lines 2598-2608: for field_name in ("Type", "Category", "Product Type", "Sub-Type")
type_field_match(item_specifics) ==
  LET typed == { i \in 1..Len(SPECIFICS_TYPE_FIELDS) :
                   /\ specifics_value(item_specifics, SPECIFICS_TYPE_FIELDS[i]) # ""
                   /\ HasKey(_ITEM_TYPE_TO_CHAPTER,
                             specifics_value(item_specifics, SPECIFICS_TYPE_FIELDS[i])) }
  IN  IF typed = {} THEN None
      ELSE LET field_name == SPECIFICS_TYPE_FIELDS[FirstOf(typed)]
               chapter    == Lookup(_ITEM_TYPE_TO_CHAPTER,
                                    specifics_value(item_specifics, field_name))
           IN  << chapter, F(80),
                  "Item Specifics " \o field_name \o ": "
                    \o dict_get(item_specifics, field_name) \o " ^08594 " \o chapter >>

\* lines 2611-2651: the brand's chapter, supported by Movement, Material and Department
brand_match(item_specifics) ==
  LET brand == specifics_value(item_specifics, "Brand")
  IN  IF brand # "" /\ HasKey(_BRAND_CATEGORY, brand)
        THEN LET brand_ch == Lookup(_BRAND_CATEGORY, brand)
                 movement == specifics_value(item_specifics, "Movement")
                 material == specifics_value(item_specifics, "Material")
                 dept     == specifics_value(item_specifics, "Department")
                 mv_ok    == movement # "" /\ movement \in MOVEMENT_VALUES /\ brand_ch = "Chapter 91"
                 support_score ==
                   F(40) + (IF mv_ok THEN F(10) ELSE 0)
                         + (IF material # "" THEN F(3) ELSE 0)
                         + (IF dept # "" THEN F(2) ELSE 0)
                 support_reasons ==
                   ("^12502^12521^12531^12489: " \o dict_get(item_specifics, "Brand")
                      \o " ^08594 " \o brand_ch)
                   \o (IF mv_ok THEN " / Movement: " \o dict_get(item_specifics, "Movement") ELSE "")
                   \o (IF material # "" THEN " / Material: " \o dict_get(item_specifics, "Material") ELSE "")
                   \o (IF dept # "" THEN " / Department: " \o dict_get(item_specifics, "Department") ELSE "")
             IN  << brand_ch, support_score, support_reasons >>
        ELSE None

\* a variant that looks at the attribute fields before the ancestors of the leaf
_classify_by_ebay_data_type_first(item_specifics, category_path) ==
  LET levels == IF category_path # "" THEN _extract_all_category_levels(category_path) ELSE << >>
  IN  IF leaf_exact_match(levels, category_path) # None
        THEN leaf_exact_match(levels, category_path)
      ELSE IF leaf_partial_match(levels, category_path) # None
        THEN leaf_partial_match(levels, category_path)
      ELSE IF type_field_match(item_specifics) # None THEN type_field_match(item_specifics)
      ELSE IF ancestor_match(levels) # None THEN ancestor_match(levels)
      ELSE brand_match(item_specifics)

\* each return of the code is the first of these that is not None
_classify_by_ebay_data(item_specifics, category_path) ==
  LET levels == IF category_path # "" THEN _extract_all_category_levels(category_path) ELSE << >>
  IN  IF leaf_exact_match(levels, category_path) # None
        THEN leaf_exact_match(levels, category_path)
      ELSE IF leaf_partial_match(levels, category_path) # None
        THEN leaf_partial_match(levels, category_path)
      ELSE IF ancestor_match(levels) # None THEN ancestor_match(levels)
      ELSE IF type_field_match(item_specifics) # None THEN type_field_match(item_specifics)
      ELSE brand_match(item_specifics)

(***************************************************************************)
(* Context Detector.                                                       *)
(***************************************************************************)
CharAtOr(s, i) == IF i \in 1..Len(s) THEN CharAt(s, i) ELSE ""

\* \b at the gap before position i
WordBoundary(s, i) == IsWordChar(CharAtOr(s, i - 1)) # IsWordChar(CharAtOr(s, i))

DigitRun(s, i, n) == i + n - 1 <= Len(s) /\ \A k \in i..(i + n - 1) : IsDigit(CharAt(s, k))

LetterRun(s, i, n) ==
  /\ i + n - 1 <= Len(s)
  /\ \A k \in i..(i + n - 1) : CharAt(s, k) \in UPPER_CHARS \cup LOWER_CHARS

\* re.compile(r'\b\d{3,6}[-]\d{2,4}[-]\d{2,4}\b').search(text)
_PART_NUMBER_RE(text) ==
  \E i \in 1..Len(text), a \in 3..6, b \in 2..4, c \in 2..4 :
    /\ WordBoundary(text, i)
    /\ DigitRun(text, i, a)
    /\ CharAtOr(text, i + a) = "-"
    /\ DigitRun(text, i + a + 1, b)
    /\ CharAtOr(text, i + a + b + 1) = "-"
    /\ DigitRun(text, i + a + b + 2, c)
    /\ WordBoundary(text, i + a + b + c + 2)

\* re.compile(r'\b[A-Z]{0,3}\d{8,15}\b', re.IGNORECASE).search(text)
_LONG_PARTNUM_RE(text) ==
  \E i \in 1..Len(text), l \in 0..3, d \in 8..15 :
    /\ WordBoundary(text, i)
    /\ LetterRun(text, i, l)
    /\ DigitRun(text, i + l, d)
    /\ WordBoundary(text, i + l + d)

BrandKeys == [ i \in 1..Len(_BRAND_CATEGORY) |-> _BRAND_CATEGORY[i][1] ]

RECURSIVE brands_of_len_down(_)
brands_of_len_down(n) ==
  IF n = 0 THEN << >>
  ELSE SelectSeq(BrandKeys, LAMBDA b : Len(b) = n) \o brands_of_len_down(n - 1)

\* a variant that walks the brands in dict order
sorted_brands_dict_order == BrandKeys

\* sorted(_BRAND_CATEGORY.keys(), key=len, reverse=True): longest first, ties in dict order
sorted_brands ==
  brands_of_len_down(CHOOSE n \in 1..64 :
                       /\ \E i \in 1..Len(BrandKeys) : Len(BrandKeys[i]) = n
                       /\ \A i \in 1..Len(BrandKeys) : Len(BrandKeys[i]) <= n)

\* for brand in sorted_brands: if brand in text_lower: ...; break -- the brand found, "" for none
first_brand_in(brands, text_lower) ==
  LET found == { i \in 1..Len(brands) : str_in(brands[i], text_lower) }
  IN  IF found = {} THEN "" ELSE brands[FirstOf(found)]

\* the dict _detect_context returns
context_of(brand_name, brand_chapter, has_part_number, auto_score) ==
  [ brand_chapter   |-> brand_chapter,
    brand_name      |-> brand_name,
    is_auto         |-> auto_score >= F(3),
    auto_boost      |-> auto_score,
    is_electronics  |-> brand_chapter = "Chapter 85",
    is_apparel      |-> brand_chapter = "Chapter 61",
    is_cosmetics    |-> brand_chapter = "Chapter 33",
    has_part_number |-> has_part_number,
    is_watch        |-> brand_chapter = "Chapter 91" ]

\* auto_score from the brand's chapter, the part-number flag and the context words found
context_with_chapter(brand_name, brand_chapter, has_part_number, ctx_count) ==
  context_of(brand_name, brand_chapter, has_part_number,
             (IF brand_chapter = "Chapter 87" THEN F(5) ELSE 0)
               + (IF has_part_number THEN F(4) ELSE 0)
               + ctx_count * 15000)

\* brand_chapter = _BRAND_CATEGORY[brand] of the brand found
context_with_brand(brand_name, has_part_number, ctx_count) ==
  context_with_chapter(brand_name,
                       IF brand_name = "" THEN "" ELSE Lookup(_BRAND_CATEGORY, brand_name),
                       has_part_number, ctx_count)

\* the part of _detect_context that reads text.lower()
context_of_lower(text_lower, has_part_number) ==
  context_with_brand(first_brand_in(sorted_brands, text_lower), has_part_number,
                     Cardinality({ w \in _AUTO_CONTEXT_WORDS : str_in(w, text_lower) }))

_detect_context(text) ==
  context_of_lower(str_lower(text), _PART_NUMBER_RE(text) \/ _LONG_PARTNUM_RE(text))

(***************************************************************************)
(* Keyword matching, with the process-wide cache of compiled patterns.     *)
(***************************************************************************)
EmptyCache == [ k \in {} |-> k ]

\* a variant whose pattern has no lookahead: the keyword may open a longer word
re_compile_boundary_open(kw_lower) ==
  [ not_after |-> LOWER_CHARS, literal |-> kw_lower, not_before |-> {} ]

\* re.compile(r'(?<![a-z])' + re.escape(kw_lower) + r'(?![a-z])')
re_compile_boundary(kw_lower) ==
  [ not_after |-> LOWER_CHARS, literal |-> kw_lower, not_before |-> LOWER_CHARS ]

re_search(pattern, text) ==
  \E i \in 1..(Len(text) - Len(pattern.literal) + 1) :
    /\ SubSeq(text, i, i + Len(pattern.literal) - 1) = pattern.literal
    /\ CharAtOr(text, i - 1) \notin pattern.not_after
    /\ CharAtOr(text, i + Len(pattern.literal)) \notin pattern.not_before

\* a variant whose cached pattern lost its lookarounds: a cache hit matches anywhere
_match_keyword_stale(kw_lower, text_lower, cache) ==
  IF Len(kw_lower) <= 4 /\ str_isascii_alpha(kw_lower)
    THEN IF kw_lower \in DOMAIN cache
           THEN [ matched |-> str_in(cache[kw_lower].literal, text_lower), cache |-> cache ]
           ELSE [ matched |-> re_search(re_compile_boundary(kw_lower), text_lower),
                  cache   |-> [ k \in DOMAIN cache \cup {kw_lower} |->
                                  IF k \in DOMAIN cache THEN cache[k]
                                  ELSE re_compile_boundary(kw_lower) ] ]
    ELSE [ matched |-> str_in(kw_lower, text_lower), cache |-> cache ]

\* returns the verdict and the cache as the call leaves it
_match_keyword(kw_lower, text_lower, cache) ==
  IF Len(kw_lower) <= 4 /\ str_isascii_alpha(kw_lower)
    THEN LET cache2 == IF kw_lower \in DOMAIN cache THEN cache
                       ELSE [ k \in DOMAIN cache \cup {kw_lower} |->
                                IF k \in DOMAIN cache THEN cache[k]
                                ELSE re_compile_boundary(kw_lower) ]
         IN  [ matched |-> re_search(cache2[kw_lower], text_lower), cache |-> cache2 ]
    ELSE [ matched |-> str_in(kw_lower, text_lower), cache |-> cache ]

(***************************************************************************)
(* Phrase Disambiguator.                                                   *)
(***************************************************************************)
\* word in table
HasWord(table, word) == \E i \in 1..Len(table) : table[i].word = word

\* table[word]
EntriesOf(table, word) == table[CHOOSE i \in 1..Len(table) : table[i].word = word].entries

InPhraseContext(word) == HasWord(_PHRASE_CONTEXT, word)

Min2(a, b) == IF a <= b THEN a ELSE b

\* the loop over _PHRASE_CONTEXT[word]
\* a variant without min(hits, 3): the boost grows with every co-occurring word
phrase_boosts_uncapped(entries, text_lower) ==
  LET hits(e) == Cardinality({ cw \in e.co_words : str_in(cw, text_lower) })
      sel     == SelectSeq(entries, LAMBDA e : hits(e) > 0)
  IN  [ i \in 1..Len(sel) |-> << sel[i].target_chapter, sel[i].base_boost * hits(sel[i]) >> ]

phrase_boosts(entries, text_lower) ==
  LET hits(e) == Cardinality({ cw \in e.co_words : str_in(cw, text_lower) })
      sel     == SelectSeq(entries, LAMBDA e : hits(e) > 0)
  IN  [ i \in 1..Len(sel) |->
          << sel[i].target_chapter, sel[i].base_boost * Min2(hits(sel[i]), 3) >> ]

_eval_phrase_context(word, text_lower) ==
  IF ~InPhraseContext(word) THEN << >>
  ELSE phrase_boosts(EntriesOf(_PHRASE_CONTEXT, word), text_lower)

(***************************************************************************)
(* Rule Scorer.                                                            *)
(***************************************************************************)
\* the points of a keyword with phrase results: best_match is the target of the first entry
\* with the largest boost (the loop replaces the best only on boost > best_boost)
phrase_points(phrase_results, rule_chapter) ==
  LET best == CHOOSE i \in 1..Len(phrase_results) :
                /\ \A j \in 1..Len(phrase_results) : phrase_results[j][2] <= phrase_results[i][2]
                /\ \A j \in 1..(i - 1) : phrase_results[j][2] < phrase_results[i][2]
  IN  IF phrase_results[best][1] = rule_chapter
        THEN F(1) + phrase_results[best][2]
        ELSE 500

\* the keyword loop's contribution for one matched keyword
keyword_points(kw_lower, text_lower, rule_chapter, is_auto) ==
  IF _eval_phrase_context(kw_lower, text_lower) # << >>
    THEN phrase_points(_eval_phrase_context(kw_lower, text_lower), rule_chapter)
  ELSE IF is_auto /\ InPhraseContext(kw_lower) /\ rule_chapter # "Chapter 87"
    THEN 1000
  ELSE F(1)

RECURSIVE score_keywords(_, _, _, _, _, _)
score_keywords(rule, text_lower, is_auto, k, score, cache) ==
  IF k > Len(rule.keywords) THEN [ score |-> score, cache |-> cache ]
  ELSE LET kw_lower == str_lower(rule.keywords[k])
           m == _match_keyword(kw_lower, text_lower, cache)
       IN  IF ~m.matched
             THEN score_keywords(rule, text_lower, is_auto, k + 1, score, m.cache)
             ELSE score_keywords(rule, text_lower, is_auto, k + 1,
                    score + keyword_points(kw_lower, text_lower, rule.chapter, is_auto), m.cache)

APPAREL_ADJACENT == { "Chapter 61", "Chapter 62", "Chapter 64", "Chapter 63", "Chapter 42" }

INDUSTRIAL_CHAPTERS == { "Chapter 87", "Chapter 84", "Chapter 85" }

\* a variant whose same-chapter brand boost does not ask for a keyword hit
boosted_score_keyword_free(base_kw_score, rule_chapter, ctx) ==
  LET brand_ch == ctx.brand_chapter
      brand_boost ==
        IF brand_ch = "" THEN 0
        ELSE IF brand_ch = "Chapter 87" /\ rule_chapter = "Chapter 87" THEN ctx.auto_boost
        ELSE IF brand_ch = "Chapter 91" /\ rule_chapter = "Chapter 91" THEN F(5)
        ELSE IF brand_ch = rule_chapter THEN F(3)
        ELSE IF brand_ch = "Chapter 61" /\ rule_chapter \in APPAREL_ADJACENT
          THEN IF ctx.brand_name \in _SHOE_PRIMARY_BRANDS
                 THEN IF rule_chapter = "Chapter 64" THEN F(3)
                      ELSE IF base_kw_score > 0 THEN F(2) ELSE 0
                 ELSE IF base_kw_score > 0 THEN F(2) ELSE 0
        ELSE 0
      part_boost ==
        IF ctx.has_part_number /\ rule_chapter \in INDUSTRIAL_CHAPTERS THEN F(3) ELSE 0
  IN  base_kw_score + brand_boost + part_boost

\* the brand and part-number boosts on the score the keyword loop left
boosted_score(base_kw_score, rule_chapter, ctx) ==
  LET brand_ch == ctx.brand_chapter
      brand_boost ==
        IF brand_ch = "" THEN 0
        ELSE IF brand_ch = "Chapter 87" /\ rule_chapter = "Chapter 87" THEN ctx.auto_boost
        ELSE IF brand_ch = "Chapter 91" /\ rule_chapter = "Chapter 91" THEN F(5)
        ELSE IF brand_ch = rule_chapter /\ base_kw_score > 0 THEN F(3)
        ELSE IF brand_ch = "Chapter 61" /\ rule_chapter \in APPAREL_ADJACENT
          THEN IF ctx.brand_name \in _SHOE_PRIMARY_BRANDS
                 THEN IF rule_chapter = "Chapter 64" THEN F(3)
                      ELSE IF base_kw_score > 0 THEN F(2) ELSE 0
                 ELSE IF base_kw_score > 0 THEN F(2) ELSE 0
        ELSE 0
      part_boost ==
        IF ctx.has_part_number /\ rule_chapter \in INDUSTRIAL_CHAPTERS THEN F(3) ELSE 0
  IN  base_kw_score + brand_boost + part_boost

\* the score returned, with the pattern cache the keyword loop left
with_boosts(kws, rule_chapter, ctx) ==
  [ score |-> boosted_score(kws.score, rule_chapter, ctx), cache |-> kws.cache ]

\* returns the score and the pattern cache as the call leaves it
_score_rule(rule, text, ctx, cache) ==
  with_boosts(score_keywords(rule, str_lower(text), ctx.is_auto, 1, 0, cache), rule.chapter, ctx)

_extract_product_keywords(product_name, ctx) ==
  LET name_lower == str_lower(product_name)
      brand_ch   == ctx.brand_chapter
      by_brand ==
        IF brand_ch = "Chapter 87"
          THEN << "car parts ^33258^21205^36554^37096^21697 ^12459^12540^12497^12540^12484 automotive vehicle" >>
        ELSE IF brand_ch = "Chapter 85"
          THEN << "^38651^23376^27231^22120 electronics device gadget" >>
        ELSE IF brand_ch = "Chapter 61"
          THEN << "^34915^26009^21697 apparel clothing ^12501^12449^12483^12471^12519^12531" >>
        ELSE IF brand_ch = "Chapter 33"
          THEN << "^21270^31911^21697 cosmetics beauty ^12473^12461^12531^12465^12450" >>
        ELSE IF brand_ch = "Chapter 91"
          THEN << "^26178^35336 watch wristwatch ^33109^26178^35336" >>
        ELSE << >>
      by_part ==
        IF ctx.has_part_number
          THEN IF brand_ch = ""
                 THEN << "car parts ^33258^21205^36554^37096^21697 automotive industrial" >>
               ELSE IF brand_ch = "Chapter 87"
                 THEN << "car parts ^33258^21205^36554^37096^21697" >>
               ELSE << >>
          ELSE << >>
      by_jdm ==
        IF str_in("jdm", name_lower)
          THEN << "car parts ^33258^21205^36554^37096^21697 automotive vehicle" >>
          ELSE << >>
      extra_context == by_brand \o by_part \o by_jdm
      joined == IF Len(extra_context) = 0 THEN ""
                ELSE IF Len(extra_context) = 1 THEN extra_context[1]
                ELSE IF Len(extra_context) = 2 THEN extra_context[1] \o " " \o extra_context[2]
                ELSE extra_context[1] \o " " \o extra_context[2] \o " " \o extra_context[3]
  IN  IF extra_context # << >> THEN product_name \o " " \o joined ELSE product_name

(***************************************************************************)
(* classify_product: the rule-based pipeline (Steps 1 to 4).               *)
(***************************************************************************)
\* for rule in CLASSIFICATION_RULES: s = _score_rule(rule, combined, ctx), rules i..j in order,
\* each call starting from the pattern cache the previous one left
RECURSIVE score_rules(_, _, _, _, _)
score_rules(i, j, combined, ctx, cache) ==
  IF i = j
    THEN LET r == _score_rule(CLASSIFICATION_RULES[i], combined, ctx, cache)
         IN  [ scores |-> << r.score >>, cache |-> r.cache ]
    ELSE LET mid   == (i + j) \div 2
             left  == score_rules(i, mid, combined, ctx, cache)
             right == score_rules(mid + 1, j, combined, ctx, left.cache)
         IN  [ scores |-> left.scores \o right.scores, cache |-> right.cache ]

\* Step 2's list of (s, rule) over the rules of the table
scored_rules(rules, scores, ebay_chapter) ==
  LET idx == SelectSeq([ i \in 1..Len(rules) |-> i ],
                       LAMBDA i : \/ scores[i] > 0
                                  \/ ebay_chapter # "" /\ rules[i].chapter = ebay_chapter)
  IN  [ k \in 1..Len(idx) |-> << scores[idx[k]], rules[idx[k]] >> ]

\* a variant that compares with > where the code compares with >=
adjusted_score_strict(s, rule_ch, ebay_result) ==
  IF rule_ch = ebay_result[1] THEN s + ebay_result[2]
  ELSE IF ebay_result[2] > F(80) THEN (s * 5) \div 100
  ELSE IF ebay_result[2] > F(60) THEN (s * 2) \div 10
  ELSE s \div 2

\* Step 3 for one (s, rule)
adjusted_score(s, rule_ch, ebay_result) ==
  IF rule_ch = ebay_result[1] THEN s + ebay_result[2]
  ELSE IF ebay_result[2] >= F(80) THEN (s * 5) \div 100
  ELSE IF ebay_result[2] >= F(60) THEN (s * 2) \div 10
  ELSE s \div 2

fuse(scored, ebay_result) ==
  IF ebay_result # None
    THEN [ k \in 1..Len(scored) |->
             << adjusted_score(scored[k][1], scored[k][2].chapter, ebay_result), scored[k][2] >> ]
    ELSE scored

\* a variant that forgets reverse=True: smaller score first
sort_by_score_asc(scored) ==
  LET rank(i) == 1 + Cardinality({ j \in 1..Len(scored) :
                                     \/ scored[j][1] < scored[i][1]
                                     \/ scored[j][1] = scored[i][1] /\ j < i })
  IN  [ r \in 1..Len(scored) |-> scored[CHOOSE i \in 1..Len(scored) : rank(i) = r] ]

\* a variant that sorts ascending and reverses the list: equal scores come out in reverse
sort_by_score_reversed(scored) ==
  LET rank(i) == 1 + Cardinality({ j \in 1..Len(scored) :
                                     \/ scored[j][1] > scored[i][1]
                                     \/ scored[j][1] = scored[i][1] /\ j > i })
  IN  [ r \in 1..Len(scored) |-> scored[CHOOSE i \in 1..Len(scored) : rank(i) = r] ]

\* scored.sort(key=lambda x: x[0], reverse=True): a stable sort, larger score first
sort_by_score_desc(scored) ==
  LET rank(i) == 1 + Cardinality({ j \in 1..Len(scored) :
                                     \/ scored[j][1] > scored[i][1]
                                     \/ scored[j][1] = scored[i][1] /\ j < i })
  IN  [ r \in 1..Len(scored) |-> scored[CHOOSE i \in 1..Len(scored) : rank(i) = r] ]


\* a variant without the rule for contradicted candidates: the thresholds decide alone
confidence_label_unsuppressed(s, rule_ch, ebay_result, ctx) ==
  IF ebay_result # None /\ rule_ch = ebay_result[1]
    THEN IF ebay_result[2] >= F(70) THEN "high"
         ELSE IF ebay_result[2] >= F(40) THEN "medium"
         ELSE "low"
    ELSE IF ctx.brand_chapter = "Chapter 87" /\ rule_ch = "Chapter 87"
      THEN IF s >= F(5) THEN "high" ELSE IF s >= F(3) THEN "medium" ELSE "low"
    ELSE IF ctx.brand_chapter # "" /\ ctx.brand_chapter = rule_ch
      THEN IF s >= F(4) THEN "high" ELSE IF s >= F(2) THEN "medium" ELSE "low"
    ELSE IF s >= F(3) THEN "high" ELSE IF s >= F(2) THEN "medium" ELSE "low"

\* a variant that rates a rule of the resolver's chapter by the keywords it matched
confidence_label_by_keywords(s, rule_ch, ebay_result, ctx) ==
  IF ebay_result # None /\ rule_ch = ebay_result[1]
    THEN IF s - ebay_result[2] >= F(3) THEN "high"
         ELSE IF s - ebay_result[2] >= F(2) THEN "medium"
         ELSE "low"
    ELSE IF ebay_result # None /\ ebay_result[2] >= F(60) THEN "low"
    ELSE IF ctx.brand_chapter = "Chapter 87" /\ rule_ch = "Chapter 87"
      THEN IF s >= F(5) THEN "high" ELSE IF s >= F(3) THEN "medium" ELSE "low"
    ELSE IF ctx.brand_chapter # "" /\ ctx.brand_chapter = rule_ch
      THEN IF s >= F(4) THEN "high" ELSE IF s >= F(2) THEN "medium" ELSE "low"
    ELSE IF s >= F(3) THEN "high" ELSE IF s >= F(2) THEN "medium" ELSE "low"

\* the confidence label of Step 4
confidence_label(s, rule_ch, ebay_result, ctx) ==
  IF ebay_result # None /\ rule_ch = ebay_result[1]
    THEN IF ebay_result[2] >= F(70) THEN "high"
         ELSE IF ebay_result[2] >= F(40) THEN "medium"
         ELSE "low"
    ELSE LET kw_score == s
             brand_ch == ctx.brand_chapter
         IN  IF ebay_result # None /\ ebay_result[2] >= F(60) THEN "low"
             ELSE IF brand_ch # "" /\ brand_ch = "Chapter 87" /\ rule_ch = "Chapter 87"
               THEN IF kw_score >= F(5) THEN "high"
                    ELSE IF kw_score >= F(3) THEN "medium" ELSE "low"
             ELSE IF brand_ch # "" /\ brand_ch = rule_ch
               THEN IF kw_score >= F(4) THEN "high"
                    ELSE IF kw_score >= F(2) THEN "medium" ELSE "low"
             ELSE IF kw_score >= F(3) THEN "high"
                  ELSE IF kw_score >= F(2) THEN "medium" ELSE "low"

\* one entry of the candidate list (_score, the display value round(s, 1), is left out: the
\* ranking score s stays in the sorted list)
candidate_of(s, rule, ebay_result, ctx) ==
  [ hs6        |-> rule.hs6,
    hts        |-> rule.hts10,
    jp_hs      |-> rule.jp_hs9,
    category   |-> rule.category,
    material   |-> rule.material,
    usage      |-> rule.usage,
    chapter    |-> rule.chapter,
    reason     |-> IF ebay_result # None /\ rule.chapter = ebay_result[1]
                     THEN "[" \o ebay_result[3] \o "] | " \o rule.reason
                     ELSE rule.reason,
    confidence |-> confidence_label(s, rule.chapter, ebay_result, ctx) ]

UNCLASSIFIED ==
  [ hs6        |-> "-----.--",
    hts        |-> "----------",
    jp_hs      |-> "---------",
    category   |-> "^19981^26126",
    material   |-> "^19981^26126",
    usage      |-> "^19981^26126",
    chapter    |-> "N/A",
    reason     |-> "^33258^21205^20998^39006^12391^12365^12414^12379^12435^12391^12375^12383^12290^21830^21697^21517^12420^35500^26126^25991^12434^12424^12426^20855^20307^30340^12395^20837^21147^12375^12390^12367^12384^12373^12356^12290",
    confidence |-> "low" ]

\* a variant without the sentinel: an empty list when nothing scored
candidates_of_no_sentinel(sorted, ebay_result, ctx) ==
  LET firsts == SelectSeq([ i \in 1..Len(sorted) |-> i ],
                          LAMBDA i : \A j \in 1..(i - 1) : sorted[j][2].hs6 # sorted[i][2].hs6)
      kept   == SubSeq(firsts, 1, Min2(3, Len(firsts)))
  IN  [ k \in 1..Len(kept) |->
          candidate_of(sorted[kept[k]][1], sorted[kept[k]][2], ebay_result, ctx) ]

\* a variant that never skips a code it has listed: the three best-scored rules
candidates_of_no_dedup(sorted, ebay_result, ctx) ==
  IF sorted = << >> THEN << UNCLASSIFIED >>
  ELSE [ k \in 1..Min2(3, Len(sorted)) |->
           candidate_of(sorted[k][1], sorted[k][2], ebay_result, ctx) ]

\* Step 4: the first occurrence of each hs6, at most three of them
candidates_of(sorted, ebay_result, ctx) ==
  LET firsts == SelectSeq([ i \in 1..Len(sorted) |-> i ],
                          LAMBDA i : \A j \in 1..(i - 1) : sorted[j][2].hs6 # sorted[i][2].hs6)
      kept   == SubSeq(firsts, 1, Min2(3, Len(firsts)))
      cands  == [ k \in 1..Len(kept) |->
                    candidate_of(sorted[kept[k]][1], sorted[kept[k]][2], ebay_result, ctx) ]
  IN  IF cands = << >> THEN << UNCLASSIFIED >> ELSE cands

\* enhanced_name + " " + description, enhanced_name from the context of the plain text
combined_text(product_name, description) ==
  _extract_product_keywords(product_name, _detect_context(product_name \o " " \o description))
    \o " " \o description

\* what the call returns, with the locals the properties speak of (scores: what _score_rule
\* gave for each rule of the table) and the pattern cache
pipeline_return(ebay_result, ctx, combined, run, scored, adjusted, sorted) ==
  [ candidates  |-> candidates_of(sorted, ebay_result, ctx),
    ebay_result |-> ebay_result,
    ctx         |-> ctx,
    combined    |-> combined,
    scores      |-> run.scores,
    scored      |-> scored,
    adjusted    |-> adjusted,
    sorted      |-> sorted,
    cache       |-> run.cache ]

\* scored.sort(...) and Step 4
pipeline_from_adjusted(ebay_result, ctx, combined, run, scored, adjusted) ==
  pipeline_return(ebay_result, ctx, combined, run, scored, adjusted, sort_by_score_desc(adjusted))

\* Step 3 and what follows
pipeline_from_scored(ebay_result, ctx, combined, run, scored) ==
  pipeline_from_adjusted(ebay_result, ctx, combined, run, scored, fuse(scored, ebay_result))

\* Step 2's selection and what follows, run being the scores and the cache of the scoring loop
pipeline_from_scores(ebay_result, ctx, combined, run) ==
  pipeline_from_scored(ebay_result, ctx, combined, run,
                       scored_rules(CLASSIFICATION_RULES, run.scores,
                                    IF ebay_result # None THEN ebay_result[1] ELSE ""))

\* Step 2's scoring loop and what follows
pipeline_from_context(ebay_result, ctx, combined, cache) ==
  pipeline_from_scores(ebay_result, ctx, combined,
                       score_rules(1, Len(CLASSIFICATION_RULES), combined, ctx, cache))

\* ctx = _detect_context(combined) and what follows
pipeline_from_text(ebay_result, combined, cache) ==
  pipeline_from_context(ebay_result, _detect_context(combined), combined, cache)

\* Steps 1 to 4, with the locals the properties speak of and the pattern cache at return
rule_based_pipeline(product_name, description, item_specifics, category_path, cache) ==
  pipeline_from_text(IF item_specifics # << >> \/ category_path # ""
                       THEN _classify_by_ebay_data(item_specifics, category_path)
                       ELSE None,
                     combined_text(product_name, description), cache)

(***************************************************************************)
(* AI Arbitrator: the Relevant-Grouping Selector, the reference list and   *)
(* _call_claude_api.                                                       *)
(***************************************************************************)
\* category-path keyword -> chapters, in dict order
_CATEGORY_CHAPTER_MAP ==
  <<
    <<"clothing", <<"Chapter 61", "Chapter 62">> >>, <<"apparel", <<"Chapter 61", "Chapter 62">> >>,
    <<"shoes", <<"Chapter 64">> >>, <<"footwear", <<"Chapter 64">> >>, <<"bags", <<"Chapter 42">> >>,
    <<"handbag", <<"Chapter 42">> >>, <<"luggage", <<"Chapter 42">> >>, <<"watches", <<"Chapter 91">> >>,
    <<"jewelry", <<"Chapter 71">> >>, <<"electronics", <<"Chapter 85">> >>,
    <<"cell phones", <<"Chapter 85">> >>, <<"computers", <<"Chapter 84">> >>,
    <<"tablets", <<"Chapter 84">> >>, <<"laptops", <<"Chapter 84">> >>, <<"cameras", <<"Chapter 85">> >>,
    <<"auto parts", <<"Chapter 87">> >>, <<"car parts", <<"Chapter 87">> >>,
    <<"vehicle parts", <<"Chapter 87">> >>, <<"motors", <<"Chapter 87">> >>, <<"toys", <<"Chapter 95">> >>,
    <<"sporting goods", <<"Chapter 95">> >>, <<"cosmetics", <<"Chapter 33">> >>,
    <<"health & beauty", <<"Chapter 33">> >>, <<"skin care", <<"Chapter 33">> >>,
    <<"fragrance", <<"Chapter 33">> >>, <<"home & garden", <<"Chapter 94">> >>,
    <<"furniture", <<"Chapter 94">> >>, <<"kitchen", <<"Chapter 73", "Chapter 69">> >>,
    <<"musical instruments", <<"Chapter 92">> >>, <<"books", <<"Chapter 49">> >>,
    <<"pet supplies", <<"Chapter 42">> >>
  >>

DEFAULT_CHAPTERS == << "Chapter 85", "Chapter 61", "Chapter 84", "Chapter 42", "Chapter 87" >>

SeqToSet(seq) == { seq[i] : i \in 1..Len(seq) }

\* the elements of seq, each at its first position
FirstOccurrences(seq) ==
  SelectSeq([ i \in 1..Len(seq) |-> i ], LAMBDA i : \A j \in 1..(i - 1) : seq[j] # seq[i])

RECURSIVE specifics_text(_, _, _)
\* sep.join(k + mid + v for k, v in item_specifics.items()), from entry i on
specifics_text(item_specifics, i, seps) ==
  IF i > Len(item_specifics) THEN ""
  ELSE item_specifics[i][1] \o seps[1] \o item_specifics[i][2]
         \o (IF i < Len(item_specifics) THEN seps[2] ELSE "")
         \o specifics_text(item_specifics, i + 1, seps)

\* chapter_scores as the three passes leave it: (score, chapter) in insertion order
chapter_scores_of(product_name, description, item_specifics, category_path) ==
  LET combined ==
        str_lower(product_name \o " " \o description \o " " \o category_path)
          \o (IF item_specifics # << >>
                THEN " " \o str_lower(specifics_text(item_specifics, 1, << " ", " " >>))
                ELSE "")
      \* 1. keyword hits per rule (plain substring test)
      rule_score(i) ==
        Cardinality({ k \in 1..Len(CLASSIFICATION_RULES[i].keywords) :
                        str_in(str_lower(CLASSIFICATION_RULES[i].keywords[k]), combined) })
      hit_rules  == SelectSeq([ i \in 1..Len(CLASSIFICATION_RULES) |-> i ],
                              LAMBDA i : rule_score(i) > 0)
      \* 2. brands mentioned (chapter labels already have two digits)
      hit_brands == SelectSeq([ i \in 1..Len(_BRAND_CATEGORY) |-> i ],
                              LAMBDA i : str_in(_BRAND_CATEGORY[i][1], combined))
      \* 3. category-path keywords
      cat_lower  == str_lower(category_path)
      hit_cats   == SelectSeq([ i \in 1..Len(_CATEGORY_CHAPTER_MAP) |-> i ],
                              LAMBDA i : str_in(_CATEGORY_CHAPTER_MAP[i][1], cat_lower))
      total(ch) ==
        F(1) * Cardinality({ p \in { << hit_rules[n], k >> : n \in 1..Len(hit_rules), k \in 1..64 } :
                               /\ CLASSIFICATION_RULES[p[1]].chapter = ch
                               /\ p[2] <= Len(CLASSIFICATION_RULES[p[1]].keywords)
                               /\ str_in(str_lower(CLASSIFICATION_RULES[p[1]].keywords[p[2]]), combined) })
        + F(3) * Cardinality({ n \in 1..Len(hit_brands) : _BRAND_CATEGORY[hit_brands[n]][2] = ch })
        + F(5) * Cardinality({ n \in 1..Len(hit_cats) :
                                 ch \in SeqToSet(_CATEGORY_CHAPTER_MAP[hit_cats[n]][2]) })
      \* the keys of chapter_scores in insertion order
      inserted ==
        [ n \in 1..Len(hit_rules) |-> CLASSIFICATION_RULES[hit_rules[n]].chapter ]
        \o [ n \in 1..Len(hit_brands) |-> _BRAND_CATEGORY[hit_brands[n]][2] ]
        \o [ n \in 1..(2 * Len(hit_cats)) |->
               LET chapters == _CATEGORY_CHAPTER_MAP[hit_cats[(n + 1) \div 2]][2]
               IN  IF n % 2 = 1 THEN chapters[1] ELSE chapters[Len(chapters)] ]
      first  == FirstOccurrences(inserted)
      keys   == [ n \in 1..Len(first) |-> << total(inserted[first[n]]), inserted[first[n]] >> ]
  IN  keys

\* a variant without the [:5] slice
top_chapters_uncut(chapter_scores) ==
  IF chapter_scores = << >> THEN DEFAULT_CHAPTERS
  ELSE [ n \in 1..Len(chapter_scores) |-> sort_by_score_desc(chapter_scores)[n][2] ]

\* the fallback list, or sorted(chapter_scores.items(), key=score, reverse=True)[:5]
top_chapters(chapter_scores) ==
  IF chapter_scores = << >> THEN DEFAULT_CHAPTERS
  ELSE [ n \in 1..Min2(5, Len(chapter_scores)) |-> sort_by_score_desc(chapter_scores)[n][2] ]

_detect_relevant_chapters(product_name, description, item_specifics, category_path) ==
  top_chapters(chapter_scores_of(product_name, description, item_specifics, category_path))

\* hts_codes.json as src/extract_hts.py writes it ({"Chapter XX": [{"code": "XXXX.XX.XX",
\* "description": ...}]}), here a table of five chapters in dict order
HTS_CODES ==
  <<
    << "Chapter 42", << [ code |-> "4202.21.60", description |-> "Handbags, with outer surface of leather" ],
                        [ code |-> "4202.99.90", description |-> "Other containers and cases" ] >> >>,
    << "Chapter 61", << [ code |-> "6109.10.00", description |-> "T-shirts, singlets, knitted, of cotton" ],
                        [ code |-> "6110.20.20", description |-> "Sweaters, pullovers, of cotton" ] >> >>,
    << "Chapter 62", << [ code |-> "6205.20.20", description |-> "Men's or boys' shirts, of cotton" ] >> >>,
    << "Chapter 65", << [ code |-> "6505.00.15", description |-> "Hats and other headgear, knitted" ] >> >>,
    << "Chapter 91", << [ code |-> "9102.11.10", description |-> "Wrist watches, electrically operated" ],
                        [ code |-> "9102.21.70", description |-> "Wrist watches, automatic winding" ] >> >>
  >>

DIGITS == "0123456789"

\* str(n) for 0 <= n <= 99
str_of_int(n) ==
  IF n < 10 THEN CharAt(DIGITS, n + 1)
  ELSE CharAt(DIGITS, (n \div 10) + 1) \o CharAt(DIGITS, (n % 10) + 1)

RECURSIVE str_join(_, _, _)
\* sep.join(lines[i:])
str_join(lines, i, sep) ==
  IF i > Len(lines) THEN ""
  ELSE IF i = Len(lines) THEN lines[i]
  ELSE lines[i] \o sep \o str_join(lines, i + 1, sep)

RECURSIVE concat_all(_, _)
\* the concatenation of seqs[i], seqs[i + 1], ...
concat_all(seqs, i) == IF i > Len(seqs) THEN << >> ELSE seqs[i] \o concat_all(seqs, i + 1)

_build_hts_reference_for_chapters(chapters) ==
  LET present  == SelectSeq(chapters, LAMBDA ch : HasKey(HTS_CODES, ch))
      included == SubSeq(present, 1, Min2(3, Len(present)))
      block(ch) ==
        LET codes == Lookup(HTS_CODES, ch)
        IN  << "=== " \o ch \o " (" \o str_of_int(Len(codes)) \o " codes) ===" >>
              \o [ k \in 1..Len(codes) |-> "  " \o codes[k].code \o ": " \o codes[k].description ]
      lines == concat_all([ n \in 1..Len(included) |-> block(included[n]) ], 1)
  IN  IF lines = << >>
        THEN "(^35442^24403^12377^12427HTS^12467^12540^12489^19968^35239^12364^35211^12388^12363^12426^12414^12379^12435)"
        ELSE str_join(lines, 1, "\n")

\* The answer of the arbitrator endpoint to one request, by the branch of _call_claude_api it
\* leads to: transport is "timeout" (requests.exceptions.Timeout), "error" (any other
\* exception of requests.post) or "response"; a response has a status_code and a body that is
\* "no_content" (data["content"][0]["text"] raises), "no_json" (the text holds no {...}),
\* "bad_json" (json.loads raises), "bad_candidate" (an entry of candidates is no dict, so
\* c.get raises) or "json", and then candidates is result.get("candidates", []).
ai_reply_of(transport, status_code, body, candidates) ==
  [ transport |-> transport, status_code |-> status_code, body |-> body, candidates |-> candidates ]

\* one entry of lines 3130-3141 (_score, a display value, is left out of candidates on both
\* paths)
normalized(c) ==
  [ hs6        |-> dict_get_or(c, "hs6", "-----.--"),
    hts        |-> dict_get_or(c, "hts", "----------"),
    jp_hs      |-> dict_get_or(c, "jp_hs", "---------"),
    category   |-> dict_get_or(c, "category", "^19981^26126"),
    material   |-> dict_get_or(c, "material", "^19981^26126"),
    usage      |-> dict_get_or(c, "usage", "^19981^26126"),
    chapter    |-> dict_get_or(c, "chapter", "N/A"),
    reason     |-> "[AI] " \o dict_get_or(c, "reason", "Claude AI ^12395^12424^12427^21028^23450"),
    confidence |-> dict_get_or(c, "confidence", "medium") ]

\* a variant that keeps every raw candidate: raw_candidates in place of raw_candidates[:3]
normalize_candidates_untruncated(raw_candidates) ==
  [ k \in 1..Len(raw_candidates) |-> normalized(raw_candidates[k]) ]

\* for c in raw_candidates[:3]: candidates.append({...})
normalize_candidates(raw_candidates) ==
  [ k \in 1..Min2(3, Len(raw_candidates)) |-> normalized(raw_candidates[k]) ]

\* returns the value returned and st.session_state.claude_api_calls as the call leaves it
_call_claude_api(product_name, description, item_specifics, category_path, api_key, reply, calls) ==
  IF api_key = "" THEN [ value |-> None, calls |-> calls ]
  ELSE IF reply.transport # "response" THEN [ value |-> None, calls |-> calls ]
  ELSE IF reply.status_code # 200 THEN [ value |-> None, calls |-> calls ]
  ELSE IF reply.body # "json" THEN [ value |-> None, calls |-> calls ]
  ELSE IF reply.candidates = << >> THEN [ value |-> None, calls |-> calls ]
  ELSE [ value |-> normalize_candidates(reply.candidates), calls |-> calls + 1 ]

\* first of: Streamlit secrets, the environment variable (stripped), the browser's
\* localStorage copy in the session, the legacy database setting; "" is None
_get_anthropic_api_key(secrets, environ, ls_key, db_setting) ==
  IF secrets # "" THEN secrets
  ELSE IF str_strip(environ) # "" THEN str_strip(environ)
  ELSE IF ls_key # "" THEN ls_key
  ELSE IF db_setting # "" THEN db_setting
  ELSE ""

(***************************************************************************)
(* classify_product.                                                       *)
(***************************************************************************)
MaxAiCandidates == 4

MaxApiCalls == 2

MaxPathDepth == 3

request_of(product_name, description, item_specifics, category_path) ==
  [ product_name |-> product_name, description |-> description,
    item_specifics |-> item_specifics, category_path |-> category_path ]

\* the requests of a session
Requests ==
  << request_of("Men's Cotton T-Shirt", "", << >>, ""),
     request_of("iPhone case", "", << << "Type", "phone case" >> >>,
                "Cell Phones & Accessories > Cell Phone Cases, Covers & Skins"),
     request_of("xyz123 unknown widget", "", << >>, ""),
     request_of("captivating design", "", << >>, ""),
     request_of("engine oil cap replacement", "", << >>, ""),
     request_of("Seiko automatic watch", "Brand: Seiko, Movement: Automatic",
                << << "Brand", "Seiko" >>, << "Movement", "Automatic" >> >>, "") >>

\* Steps 1 to 4 for each request of the session, from an empty pattern cache and from the
\* cache a first call leaves behind
ColdRuns ==
  [ i \in 1..Len(Requests) |->
      rule_based_pipeline(Requests[i].product_name, Requests[i].description,
                          Requests[i].item_specifics, Requests[i].category_path, EmptyCache) ]

WarmCache == ColdRuns[1].cache

WarmRuns ==
  [ i \in 1..Len(Requests) |->
      rule_based_pipeline(Requests[i].product_name, Requests[i].description,
                          Requests[i].item_specifics, Requests[i].category_path, WarmCache) ]

\* Steps 1 to 4, read from the tables above where they hold the call
rule_based_steps(product_name, description, item_specifics, category_path, cache) ==
  LET req == request_of(product_name, description, item_specifics, category_path)
      at  == { i \in 1..Len(Requests) : Requests[i] = req }
  IN  IF at # {} /\ cache = EmptyCache THEN ColdRuns[FirstOf(at)]
      ELSE IF at # {} /\ cache = WarmCache THEN WarmRuns[FirstOf(at)]
      ELSE rule_based_pipeline(product_name, description, item_specifics, category_path, cache)

\* the arbitrator's list when there is one, else the rule-based list
\* (ai: what _call_claude_api gave; rb: Steps 1 to 4, read only without an arbitrator list)
returned(ai, rb, cache) ==
  IF ai.value # None
    THEN [ value |-> ai.value, cache |-> cache, calls |-> ai.calls ]
    ELSE [ value |-> rb.candidates, cache |-> rb.cache, calls |-> ai.calls ]

\* a variant that fills an arbitrator list of fewer than three with rule-based candidates
classify_product_mixed(product_name, description, item_specifics, category_path, api_key, reply, cache, calls) ==
  LET ai == IF api_key # ""
              THEN _call_claude_api(product_name, description, item_specifics, category_path,
                                    api_key, reply, calls)
              ELSE [ value |-> None, calls |-> calls ]
      rb == rule_based_steps(product_name, description, item_specifics, category_path, cache)
  IN  IF ai.value # None
        THEN [ value |-> SubSeq(ai.value \o rb.candidates, 1, 3), cache |-> rb.cache,
               calls |-> ai.calls ]
        ELSE [ value |-> rb.candidates, cache |-> rb.cache, calls |-> ai.calls ]

\* returns the list returned, with the pattern cache and the call counter as the call leaves
\* them
classify_product(product_name, description, item_specifics, category_path, api_key, reply, cache, calls) ==
  returned(IF api_key # ""
             THEN _call_claude_api(product_name, description, item_specifics, category_path,
                                   api_key, reply, calls)
             ELSE [ value |-> None, calls |-> calls ],
           rule_based_steps(product_name, description, item_specifics, category_path, cache),
           cache)

(***************************************************************************)
(* The arbitrator's answers.                                               *)
(***************************************************************************)
\* raw candidates an answer can carry: one drawn from the reference list, one with a code
\* that is in no list, one with a label outside the three levels, one with only an hs6
AI_CANDIDATES ==
  << << << "hs6", "6109.10" >>, << "hts", "6109.10.00" >>, << "jp_hs", "6109.10.900" >>,
        << "category", "apparel" >>, << "material", "cotton" >>, << "usage", "daily wear" >>,
        << "chapter", "Chapter 61" >>, << "reason", "knitted cotton T-shirt" >>,
        << "confidence", "high" >> >>,
     << << "hs6", "9999.99" >>, << "hts", "9999.99.99" >>, << "chapter", "Chapter 99" >>,
        << "reason", "closest guess" >>, << "confidence", "low" >> >>,
     << << "hs6", "4202.99" >>, << "hts", "4202.99.90" >>, << "chapter", "Chapter 42" >>,
        << "confidence", "certain" >> >>,
     << << "hs6", "9102.21" >> >> >>

\* n candidates, from the s-th of AI_CANDIDATES on, cyclically
candidate_list(s, n) ==
  [ k \in 1..n |-> AI_CANDIDATES[((s + k - 2) % Len(AI_CANDIDATES)) + 1] ]

AiReplies ==
  { ai_reply_of("timeout", 0, "", << >>), ai_reply_of("error", 0, "", << >>) }
  \cup { ai_reply_of("response", code, "", << >>) : code \in { 401, 429, 500 } }
  \cup { ai_reply_of("response", 200, body, << >>) :
           body \in { "no_content", "no_json", "bad_json", "bad_candidate" } }
  \cup { ai_reply_of("response", 200, "json", candidate_list(s, n)) :
           s \in 1..Len(AI_CANDIDATES), n \in 0..MaxAiCandidates }

\* where a deployment keeps its key: << secrets, environment, localStorage, database >>
KeyConfigs ==
  { << "", "", "", "" >>,
    << "sk-ant-secret", "", "", "" >>,
    << "", " sk-ant-env ", "", "" >>,
    << "", "  ", "sk-ant-browser", "" >>,
    << "", "", "", "sk-ant-legacy" >>,
    << "sk-ant-secret", "sk-ant-env", "sk-ant-browser", "sk-ant-legacy" >> }

(***************************************************************************)
(* Inputs of the resolver and of the rule-based pipeline.                  *)
(***************************************************************************)
PATH_SEGMENTS == { "Wristwatches", "Jewelry & Watches", "Men", "Qzx Vvv", " " }

RECURSIVE PathsOfDepth(_)
PathsOfDepth(n) ==
  IF n = 0 THEN { "" }
  ELSE IF n = 1 THEN PATH_SEGMENTS
  ELSE { p \o " > " \o s : p \in PathsOfDepth(n - 1), s \in PATH_SEGMENTS }

CategoryPaths == UNION { PathsOfDepth(n) : n \in 0..MaxPathDepth }

ItemSpecifics ==
  { << >>,
    << << "Type", "Watch" >>, << "Brand", "Nike" >> >>,
    << << "Type", "gadget" >>, << "Category", " Wristwatch " >> >>,
    << << "Brand", "Seiko" >>, << "Movement", "Automatic" >>, << "Material", "Steel" >>,
       << "Department", "Men" >> >>,
    << << "Brand", "Nike" >>, << "Movement", "Quartz" >> >>,
    << << "Brand", "Acme" >>, << "Type", " " >> >> }

\* "" is the call without text: the entry point takes any str
ProductNames ==
  { "", "Men's Cotton T-Shirt", "iPhone case", "xyz123 unknown widget", "engine oil cap replacement",
    "baseball cap with logo", "captivating design", "Land Rover parts",
    "Honda 82871-671-000 antenna", "Seiko automatic watch", "Nike running shoes",
    "sneakers shoes boots sandals jordan yeezy", "Gold Ring T-Shirt tee", "laptop tablet ipad",
    "Tom Ford perfume" }

Descriptions == { "", "Rolex gold ring with leather strap" }

MarketData ==
  { << << >>, "" >>,
    << << << "Type", "phone case" >> >>,
       "Cell Phones & Accessories > Cell Phone Cases, Covers & Skins" >>,
    << << >>, "Jewelry & Watches > Watches, Parts & Accessories > Watches > Wristwatches" >>,
    << << << "Type", "Watch" >> >>, "Men > Qzx Vvv" >>,
    << << << "Type", "Watch" >> >>, "" >>,
    << << << "Brand", "Seiko" >>, << "Movement", "Automatic" >> >>, "" >>,
    << << << "Brand", "Nike" >> >>, "" >>,
    << << >>, "Sporting Goods > Hunting" >>,
    << << >>, "Wristwatches > Qzx Vvv" >>,
    << << >>, "Jewelry & Watches" >> }

PipelineRequests ==
  { request_of(n, d, m[1], m[2]) : n \in ProductNames, d \in Descriptions, m \in MarketData }

(***************************************************************************)
(* A session: classify_product called again and again in one process, the  *)
(* key where the deployment put it.                                        *)
(***************************************************************************)
ResolverIdle == rs_input = None /\ rs_result = None /\ rs_pc = "idle"

PipelineIdle == pl_request = None /\ pl_out = None /\ pl_pc = "idle"

MatcherIdle == mk_input = None /\ mk_matched = FALSE /\ mk_pc = "idle"

SelectorIdle == sc_input = None /\ sc_out = None /\ sc_pc = "idle"

ScorerIdle == kp_input = None /\ kp_out = None /\ kp_pc = "idle"

UiIdle ==
  /\ st_results = << >> /\ st_pending_save = << >> /\ st_selected_candidate = None
  /\ st_scraped_info = << >> /\ history = << >> /\ edit_log = << >>
  /\ sqlite_sequence = [ history |-> 0, edit_log |-> 0 ]
  /\ ui_shown_run = None /\ ui_last = [ kind |-> "start" ]

PinIdle ==
  /\ ls_ebay_client = "" /\ db_ebay_client = "" /\ ebay_preconfigured = FALSE
  /\ ls_settings_pin = "" /\ ls_keys_loaded = FALSE
  /\ local_storage = [ ak |-> "", ebay |-> "", pin |-> "" ]
  /\ pin_last = [ kind |-> "start" ]

TokenIdle ==
  /\ ebay_credentials = FALSE /\ ebay_token = 0 /\ ebay_token_expires = 0
  /\ tk_now = 0 /\ tk_issued = << >> /\ tk_callers = << >>

SessionIdle ==
  /\ secrets_key = "" /\ environ_key = "" /\ ls_anthropic_api_key = "" /\ db_anthropic_api_key = ""
  /\ re_cache = EmptyCache /\ claude_api_calls = 0
  /\ request = None /\ used_api_key = "" /\ ai_reply = None /\ result = None /\ prev = None

Init ==
  /\ \E k \in KeyConfigs :
       /\ secrets_key = k[1] /\ environ_key = k[2]
       /\ ls_anthropic_api_key = k[3] /\ db_anthropic_api_key = k[4]
  /\ re_cache = EmptyCache
  /\ claude_api_calls = 0
  /\ request = None /\ used_api_key = "" /\ ai_reply = None /\ result = None /\ prev = None
  /\ ResolverIdle
  /\ PipelineIdle
  /\ MatcherIdle
  /\ SelectorIdle
  /\ TokenIdle
  /\ ScorerIdle
  /\ UiIdle
  /\ PinIdle

\* one call of classify_product; prev keeps, or not, the call before it when that one ran
\* without arbitrator
ClassifyProduct ==
  \E req \in SeqToSet(Requests), reply \in AiReplies :
    \E key \in { _get_anthropic_api_key(secrets_key, environ_key, ls_anthropic_api_key,
                                        db_anthropic_api_key) } :
      \E out \in { classify_product(req.product_name, req.description, req.item_specifics,
                                     req.category_path, key, reply, re_cache,
                                     claude_api_calls) } :
        /\ key = "" => reply = ai_reply_of("timeout", 0, "", << >>)
        /\ out.calls <= MaxApiCalls
        /\ request' = req
        /\ used_api_key' = key
        /\ ai_reply' = IF key = "" THEN None ELSE reply
        /\ result' = out.value
        /\ re_cache' = out.cache
        /\ claude_api_calls' = out.calls
        /\ prev' \in { prev } \cup
                     (IF request # None /\ used_api_key = ""
                        THEN { [ request |-> request, result |-> result ] } ELSE { })
        /\ UNCHANGED << secrets_key, environ_key, ls_anthropic_api_key, db_anthropic_api_key,
                        rs_input, rs_result, rs_pc, pl_request, pl_out, pl_pc,
                        mk_input, mk_matched, mk_pc,
                        sc_input, sc_out, sc_pc,
                        ebay_credentials, ebay_token, ebay_token_expires, tk_now, tk_issued, tk_callers,
                        kp_input, kp_out, kp_pc,
                        st_results, st_pending_save, st_selected_candidate, st_scraped_info, history, edit_log, sqlite_sequence, ui_shown_run, ui_last,
                        ls_ebay_client, db_ebay_client, ebay_preconfigured, ls_settings_pin, ls_keys_loaded, local_storage, pin_last >>

Next == ClassifyProduct

Spec == Init /\ [][Next]_vars

(***************************************************************************)
(* _classify_by_ebay_data over attribute maps and category paths.          *)
(***************************************************************************)
InitResolver ==
  /\ SessionIdle
  /\ PipelineIdle
  /\ MatcherIdle
  /\ rs_input \in { << sp, p >> : sp \in ItemSpecifics, p \in CategoryPaths }
  /\ rs_result = None
  /\ rs_pc = "call"
  /\ SelectorIdle
  /\ TokenIdle
  /\ ScorerIdle
  /\ UiIdle
  /\ PinIdle

ClassifyByEbayData ==
  /\ rs_pc = "call"
  /\ rs_result' = _classify_by_ebay_data(rs_input[1], rs_input[2])
  /\ rs_pc' = "done"
  /\ UNCHANGED << secrets_key, environ_key, ls_anthropic_api_key, db_anthropic_api_key,
                  re_cache, claude_api_calls, request, used_api_key, ai_reply, result, prev,
                  rs_input, pl_request, pl_out, pl_pc, mk_input, mk_matched, mk_pc,
                  sc_input, sc_out, sc_pc,
                  ebay_credentials, ebay_token, ebay_token_expires, tk_now, tk_issued, tk_callers,
                  kp_input, kp_out, kp_pc,
                  st_results, st_pending_save, st_selected_candidate, st_scraped_info, history, edit_log, sqlite_sequence, ui_shown_run, ui_last,
                  ls_ebay_client, db_ebay_client, ebay_preconfigured, ls_settings_pin, ls_keys_loaded, local_storage, pin_last >>

NextResolver == ClassifyByEbayData

SpecResolver == InitResolver /\ [][NextResolver]_vars

(***************************************************************************)
(* classify_product without arbitrator, in a fresh process, with its       *)
(* locals at return.                                                       *)
(***************************************************************************)
InitPipeline ==
  /\ SessionIdle
  /\ ResolverIdle
  /\ MatcherIdle
  /\ pl_request \in PipelineRequests
  /\ pl_out = None
  /\ pl_pc = "call"
  /\ SelectorIdle
  /\ TokenIdle
  /\ ScorerIdle
  /\ UiIdle
  /\ PinIdle

ClassifyRuleBased ==
  /\ pl_pc = "call"
  /\ pl_out' = rule_based_pipeline(pl_request.product_name, pl_request.description,
                                   pl_request.item_specifics, pl_request.category_path,
                                   EmptyCache)
  /\ pl_pc' = "done"
  /\ UNCHANGED << secrets_key, environ_key, ls_anthropic_api_key, db_anthropic_api_key,
                  re_cache, claude_api_calls, request, used_api_key, ai_reply, result, prev,
                  rs_input, rs_result, rs_pc, pl_request, mk_input, mk_matched, mk_pc,
                  sc_input, sc_out, sc_pc,
                  ebay_credentials, ebay_token, ebay_token_expires, tk_now, tk_issued, tk_callers,
                  kp_input, kp_out, kp_pc,
                  st_results, st_pending_save, st_selected_candidate, st_scraped_info, history, edit_log, sqlite_sequence, ui_shown_run, ui_last,
                  ls_ebay_client, db_ebay_client, ebay_preconfigured, ls_settings_pin, ls_keys_loaded, local_storage, pin_last >>

NextPipeline == ClassifyRuleBased

SpecPipeline == InitPipeline /\ [][NextPipeline]_vars

(***************************************************************************)
(* _match_keyword as _score_rule calls it, again and again in one process: *)
(* the keyword and the text are lowered by the caller, the compiled        *)
(* patterns stay in _SHORT_KW_BOUNDARY_RE_CACHE from call to call.         *)
(***************************************************************************)
\* rule keywords as the table writes them
MatcherKeywords ==
  { "cap", "tee", "ring", "LED", "t-shirt", "rs-x", "574", "^12461^12515^12483^12503" }

\* combined texts as the caller receives them
MatcherTexts ==
  { "", "captivating design", "capture", "baseball cap with logo", "Baseball CAP",
    "cap2 recap", "Men's T-Shirt tee", "gold earrings", "Gold Ring", "sledge",
    "LED lamp", "puma rs-x 574x", "^12461^12515^12483^12503cap", "steel-tee_ring" }

InitMatcher ==
  /\ SessionIdle
  /\ ResolverIdle
  /\ PipelineIdle
  /\ MatcherIdle
  /\ SelectorIdle
  /\ TokenIdle
  /\ ScorerIdle
  /\ UiIdle
  /\ PinIdle

MatchKeyword ==
  \E kw \in MatcherKeywords, text \in MatcherTexts :
    \E out \in { _match_keyword(str_lower(kw), str_lower(text), re_cache) } :
      /\ mk_input' = << kw, text >>
      /\ mk_matched' = out.matched
      /\ mk_pc' = "done"
      /\ re_cache' = out.cache
      /\ UNCHANGED << secrets_key, environ_key, ls_anthropic_api_key, db_anthropic_api_key,
                      claude_api_calls, request, used_api_key, ai_reply, result, prev,
                      rs_input, rs_result, rs_pc, pl_request, pl_out, pl_pc,
                      sc_input, sc_out, sc_pc,
                      ebay_credentials, ebay_token, ebay_token_expires, tk_now, tk_issued, tk_callers,
                      kp_input, kp_out, kp_pc,
                      st_results, st_pending_save, st_selected_candidate, st_scraped_info, history, edit_log, sqlite_sequence, ui_shown_run, ui_last,
                      ls_ebay_client, db_ebay_client, ebay_preconfigured, ls_settings_pin, ls_keys_loaded, local_storage, pin_last >>

NextMatcher == MatchKeyword

SpecMatcher == InitMatcher /\ [][NextMatcher]_vars

(***************************************************************************)
(* _detect_relevant_chapters over requests, with its chapter_scores.       *)
(***************************************************************************)
SelectorNames ==
  { "", "xyz123 unknown widget", "Men's Cotton T-Shirt", "Honda 82871-671-000 antenna",
    "Gold Ring T-Shirt tee", "laptop tablet ipad", "Tom Ford perfume",
    "sneakers shoes boots sandals jordan yeezy" }

SelectorPaths ==
  { "", "Home & Garden > Kitchen, Dining & Bar", "Clothing, Shoes & Accessories > Men > Shirts",
    "Jewelry & Watches > Watches, Parts & Accessories > Watches > Wristwatches",
    "eBay Motors > Parts & Accessories > Car Parts" }

SelectorRequests ==
  { request_of(n, d, sp, p) :
      n \in SelectorNames, d \in Descriptions,
      sp \in { << >>, << << "Brand", "Seiko" >>, << "Movement", "Automatic" >> >> },
      p \in SelectorPaths }

InitSelector ==
  /\ SessionIdle
  /\ ResolverIdle
  /\ PipelineIdle
  /\ MatcherIdle
  /\ sc_input \in SelectorRequests
  /\ sc_out = None
  /\ sc_pc = "call"
  /\ TokenIdle
  /\ ScorerIdle
  /\ UiIdle
  /\ PinIdle

DetectRelevantChapters ==
  /\ sc_pc = "call"
  /\ \E scores \in { chapter_scores_of(sc_input.product_name, sc_input.description,
                                       sc_input.item_specifics, sc_input.category_path) } :
       sc_out' = [ chapter_scores |-> scores, chapters |-> top_chapters(scores) ]
  /\ sc_pc' = "done"
  /\ UNCHANGED << secrets_key, environ_key, ls_anthropic_api_key, db_anthropic_api_key,
                  re_cache, claude_api_calls, request, used_api_key, ai_reply, result, prev,
                  rs_input, rs_result, rs_pc, pl_request, pl_out, pl_pc,
                  mk_input, mk_matched, mk_pc, sc_input,
                  ebay_credentials, ebay_token, ebay_token_expires, tk_now, tk_issued, tk_callers,
                  kp_input, kp_out, kp_pc,
                  st_results, st_pending_save, st_selected_candidate, st_scraped_info, history, edit_log, sqlite_sequence, ui_shown_run, ui_last,
                  ls_ebay_client, db_ebay_client, ebay_preconfigured, ls_settings_pin, ls_keys_loaded, local_storage, pin_last >>

NextSelector == DetectRelevantChapters

SpecSelector == InitSelector /\ [][NextSelector]_vars

(***************************************************************************)
(* The eBay application token: _get_ebay_oauth_token and                   *)
(* _fetch_ebay_app_token called by several callers on one session state,   *)
(* one statement at a time.  Tokens are numbered in the order the endpoint *)
(* issues them; 0 is the empty string.                                     *)
(***************************************************************************)
MaxClock == 240

MaxTokens == 2

TokenCallers == 1..2

\* ret is the token returned (0 for None or ""), hit_at the time of a cache hit (-1 for none)
caller_at(pc, cached, expires, token, expires_in, ret, hit_at) ==
  [ pc |-> pc, cached |-> cached, expires |-> expires, token |-> token,
    expires_in |-> expires_in, ret |-> ret, hit_at |-> hit_at ]

\* what the token functions do not touch
TokenFrame ==
  UNCHANGED << secrets_key, environ_key, ls_anthropic_api_key, db_anthropic_api_key,
               re_cache, claude_api_calls, request, used_api_key, ai_reply, result, prev,
               rs_input, rs_result, rs_pc, pl_request, pl_out, pl_pc,
               mk_input, mk_matched, mk_pc, sc_input, sc_out, sc_pc,
               kp_input, kp_out, kp_pc,
               st_results, st_pending_save, st_selected_candidate, st_scraped_info, history, edit_log, sqlite_sequence, ui_shown_run, ui_last,
               ls_ebay_client, db_ebay_client, ebay_preconfigured, ls_settings_pin, ls_keys_loaded, local_storage, pin_last >>

InitToken ==
  /\ SessionIdle
  /\ ResolverIdle
  /\ PipelineIdle
  /\ MatcherIdle
  /\ SelectorIdle
  /\ ebay_credentials \in BOOLEAN
  /\ ebay_token = 0
  /\ ebay_token_expires = 0
  /\ tk_now = 0
  /\ tk_issued = << >>
  /\ tk_callers = [ c \in TokenCallers |-> caller_at("idle", 0, 0, 0, 0, 0, -1) ]
  /\ ScorerIdle
  /\ UiIdle
  /\ PinIdle

\* a caller enters _get_ebay_oauth_token
EnterGetToken(c) ==
  /\ tk_callers[c].pc \in { "idle", "returned" }
  /\ tk_callers' = [ tk_callers EXCEPT ![c] = caller_at("read_token", 0, 0, 0, 0, 0, -1) ]
  /\ UNCHANGED << ebay_credentials, ebay_token, ebay_token_expires, tk_now, tk_issued >>
  /\ TokenFrame

\* cached = st.session_state.get("_ebay_token", "")
ReadCachedToken(c) ==
  /\ tk_callers[c].pc = "read_token"
  /\ tk_callers' = [ tk_callers EXCEPT ![c].cached = ebay_token, ![c].pc = "read_expires" ]
  /\ UNCHANGED << ebay_credentials, ebay_token, ebay_token_expires, tk_now, tk_issued >>
  /\ TokenFrame

\* expires = st.session_state.get("_ebay_token_expires", 0)
ReadCachedExpires(c) ==
  /\ tk_callers[c].pc = "read_expires"
  /\ tk_callers' = [ tk_callers EXCEPT ![c].expires = ebay_token_expires, ![c].pc = "check" ]
  /\ UNCHANGED << ebay_credentials, ebay_token, ebay_token_expires, tk_now, tk_issued >>
  /\ TokenFrame

\* if cached and time.time() < expires: return cached; without credentials: return None
CheckCached(c) ==
  /\ tk_callers[c].pc = "check"
  /\ tk_callers' =
       [ tk_callers EXCEPT ![c] =
           IF tk_callers[c].cached # 0 /\ tk_now < tk_callers[c].expires
             THEN [ tk_callers[c] EXCEPT !.pc = "returned", !.ret = tk_callers[c].cached,
                                         !.hit_at = tk_now ]
           ELSE IF ~ebay_credentials
             THEN [ tk_callers[c] EXCEPT !.pc = "returned", !.ret = 0 ]
           ELSE [ tk_callers[c] EXCEPT !.pc = "post" ] ]
  /\ UNCHANGED << ebay_credentials, ebay_token, ebay_token_expires, tk_now, tk_issued >>
  /\ TokenFrame

\* requests.post(...) answered with a new access_token and its expires_in
PostIssuesToken(c) ==
  /\ tk_callers[c].pc = "post"
  /\ Len(tk_issued) < MaxTokens
  /\ \E expires_in \in { 120, 180 } :
       /\ tk_issued' = Append(tk_issued, [ issued_at |-> tk_now, expires_in |-> expires_in,
                                           cached_expiry |-> -1 ])
       /\ tk_callers' = [ tk_callers EXCEPT ![c].token = Len(tk_issued) + 1,
                                            ![c].expires_in = expires_in,
                                            ![c].pc = "write_token" ]
  /\ UNCHANGED << ebay_credentials, ebay_token, ebay_token_expires, tk_now >>
  /\ TokenFrame

\* requests.post(...) raised, or the answer had no access_token: None or "" is returned
PostFails(c) ==
  /\ tk_callers[c].pc = "post"
  /\ tk_callers' = [ tk_callers EXCEPT ![c].pc = "returned", ![c].ret = 0 ]
  /\ UNCHANGED << ebay_credentials, ebay_token, ebay_token_expires, tk_now, tk_issued >>
  /\ TokenFrame

\* st.session_state["_ebay_token"] = token
WriteToken(c) ==
  /\ tk_callers[c].pc = "write_token"
  /\ ebay_token' = tk_callers[c].token
  /\ tk_callers' = [ tk_callers EXCEPT ![c].pc = "write_expires" ]
  /\ UNCHANGED << ebay_credentials, ebay_token_expires, tk_now, tk_issued >>
  /\ TokenFrame

\* st.session_state["_ebay_token_expires"] = time.time() + expires_in - 60; return token
WriteExpires(c) ==
  /\ tk_callers[c].pc = "write_expires"
  /\ ebay_token_expires' = tk_now + tk_callers[c].expires_in - 60
  /\ tk_issued' = [ tk_issued EXCEPT ![tk_callers[c].token].cached_expiry =
                                        tk_now + tk_callers[c].expires_in - 60 ]
  /\ tk_callers' = [ tk_callers EXCEPT ![c].pc = "returned", ![c].ret = tk_callers[c].token ]
  /\ UNCHANGED << ebay_credentials, ebay_token, tk_now >>
  /\ TokenFrame

\* time passes
ClockTick ==
  /\ tk_now + 60 <= MaxClock
  /\ tk_now' = tk_now + 60
  /\ UNCHANGED << ebay_credentials, ebay_token, ebay_token_expires, tk_issued, tk_callers >>
  /\ TokenFrame

NextToken ==
  \/ \E c \in TokenCallers :
       \/ EnterGetToken(c)
       \/ ReadCachedToken(c)
       \/ ReadCachedExpires(c)
       \/ CheckCached(c)
       \/ PostIssuesToken(c)
       \/ PostFails(c)
       \/ WriteToken(c)
       \/ WriteExpires(c)
  \/ ClockTick

SpecToken == InitToken /\ [][NextToken]_vars

(***************************************************************************)
(* The keyword loop of _score_rule for one rule and one text.              *)
(***************************************************************************)
ScorerRules ==
  { r \in SeqToSet(CLASSIFICATION_RULES) :
      r.hs6 \in { "6505.00", "4202.99", "7117.19", "9608.10", "6109.10" } }

ScorerTexts ==
  { "baseball cap with logo", "engine oil cap replacement", "water bottle cap lid drink",
    "iPhone case", "phone cover for ipad tablet smartphone iphone", "sofa seat cover phone",
    "bed cover phone", "engine timing cover", "gold diamond wedding ring",
    "piston ring gasket gold", "ring", "Ballpoint pen marker", "Men's Cotton T-Shirt tee",
    "pencil" }

\* what the loop does with keyword k: tested, and if matched the phrase results it got
phrase_calls(rule, text_lower) ==
  [ k \in 1..Len(rule.keywords) |->
      IF _match_keyword(str_lower(rule.keywords[k]), text_lower, EmptyCache).matched
        THEN [ matched |-> TRUE,
               phrase_results |-> _eval_phrase_context(str_lower(rule.keywords[k]), text_lower) ]
        ELSE [ matched |-> FALSE, phrase_results |-> << >> ] ]

InitScorer ==
  /\ SessionIdle
  /\ ResolverIdle
  /\ PipelineIdle
  /\ MatcherIdle
  /\ SelectorIdle
  /\ TokenIdle
  /\ kp_input \in { [ rule |-> r, text |-> t, is_auto |-> a ] :
                      r \in ScorerRules, t \in ScorerTexts, a \in BOOLEAN }
  /\ kp_out = None
  /\ kp_pc = "call"
  /\ UiIdle
  /\ PinIdle

ScoreKeywords ==
  /\ kp_pc = "call"
  /\ kp_out' = [ score |-> score_keywords(kp_input.rule, str_lower(kp_input.text),
                                          kp_input.is_auto, 1, 0, EmptyCache).score,
                 calls |-> phrase_calls(kp_input.rule, str_lower(kp_input.text)) ]
  /\ kp_pc' = "done"
  /\ UNCHANGED << secrets_key, environ_key, ls_anthropic_api_key, db_anthropic_api_key,
                  re_cache, claude_api_calls, request, used_api_key, ai_reply, result, prev,
                  rs_input, rs_result, rs_pc, pl_request, pl_out, pl_pc,
                  mk_input, mk_matched, mk_pc, sc_input, sc_out, sc_pc,
                  ebay_credentials, ebay_token, ebay_token_expires, tk_now, tk_issued,
                  tk_callers, kp_input,
                  st_results, st_pending_save, st_selected_candidate, st_scraped_info, history, edit_log, sqlite_sequence, ui_shown_run, ui_last,
                  ls_ebay_client, db_ebay_client, ebay_preconfigured, ls_settings_pin, ls_keys_loaded, local_storage, pin_last >>

NextScorer == ScoreKeywords

SpecScorer == InitScorer /\ [][NextScorer]_vars

(***************************************************************************)
(* The page: the providers of product text, the classification run, the    *)
(* adoption of a candidate, the history table and its edit log.            *)
(***************************************************************************)
MaxHistory == 2

MaxEdits == 1

_EBAY_MARKETPLACE_MAP ==
  { "www.ebay.com", "www.ebay.co.uk", "www.ebay.de", "www.ebay.co.jp", "www.ebay.com.au",
    "www.ebay.ca", "www.ebay.fr", "www.ebay.it", "www.ebay.es" }

\* urlparse(url).hostname for a URL of the form scheme://host/path ("" for None)
hostname_of(url) ==
  LET starts == { i \in 1..Len(url) : i + 2 <= Len(url) /\ SubSeq(url, i, i + 2) = "://" }
  IN  IF starts = {}
        THEN ""
        ELSE LET b == (CHOOSE i \in starts : \A j \in starts : i <= j) + 3
                 ends == { j \in b..Len(url) : SubSeq(url, j, j) \in { "/", "?", "#" } }
                 e == IF ends = {} THEN Len(url)
                      ELSE (CHOOSE j \in ends : \A k \in ends : j <= k) - 1
             IN  str_lower(SubSeq(url, b, e))

_is_ebay_url(url) == hostname_of(url) \in _EBAY_MARKETPLACE_MAP

\* the dict the providers return; _api_error is "" where the key is absent
info_of(title, description, item_specifics, category_path, error, source, api_error) ==
  [ title |-> title, description |-> description, item_specifics |-> item_specifics,
    category_path |-> category_path, error |-> error, source |-> source,
    _api_error |-> api_error ]

priority_keys ==
  << "Brand", "Material", "Type", "Style", "Department", "Product Type", "Category",
     "Sub-Type", "Product Line", "Model", "MPN", "Manufacturer Part Number", "Color",
     "Size", "Pattern", "Fabric Type", "Outer Shell Material", "Upper Material",
     "Sole Material", "Features", "Intended Use", "Sport", "^12502^12521^12531^12489",
     "^32032^26448", "^12479^12452^12503", "^12459^12486^12468^12522" >>

RECURSIVE join_parts(_, _)
join_parts(parts, sep) ==
  IF parts = << >> THEN ""
  ELSE IF Len(parts) = 1 THEN parts[1]
  ELSE parts[1] \o sep \o join_parts(Tail(parts), sep)

_build_description_from_specifics(specifics) ==
  LET part(key, val) == key \o ": " \o val
      first == SelectSeq(priority_keys, LAMBDA key : HasKey(specifics, key))
      rest == SelectSeq(specifics,
                        LAMBDA kv : /\ ~ \E n \in 1..Len(first) : first[n] = kv[1]
                                    /\ kv[2] # ""
                                    /\ str_lower(kv[2]) \notin { "n/a", "does not apply", "-" })
  IN  join_parts([ n \in 1..Len(first) |-> part(first[n], Lookup(specifics, first[n])) ]
                   \o [ n \in 1..Len(rest) |-> part(rest[n][1], rest[n][2]) ],
                 " | ")

NO_KEY_INFO ==
  info_of("", "", << >>, "", "eBay API^12461^12540^12364^26410^35373^23450^12398^12383^12417^12289^21830^21697^21517^12434^25163^21205^20837^21147^12375^12390^12367^12384^12373^12356^12290", "none", "")

\* token: whether _get_ebay_oauth_token() gave one; api_result, scrape_result: what
\* fetch_ebay_item(url) and scrape_product_info(url) return when they are called
fetch_product_info(url, token, api_result, scrape_result) ==
  IF _is_ebay_url(url)
    THEN IF token
           THEN IF api_result.error = ""
                  THEN api_result
                  ELSE IF scrape_result.error = "" /\ scrape_result.title # ""
                         THEN [ scrape_result EXCEPT !._api_error = api_result.error ]
                         ELSE [ api_result EXCEPT !._api_error = api_result.error ]
           ELSE IF scrape_result.error = "" /\ scrape_result.title # ""
                  THEN scrape_result
                  ELSE NO_KEY_INFO
    ELSE scrape_result

\* the locals of the run when the classification starts: product_name, full_description,
\* ebay_item_specifics, ebay_category_path  (info is read only when input_url is given)
run_locals(input_url, input_name, input_desc, info) ==
  LET taken == input_url # "" /\ info._api_error = ""
      description == IF taken /\ info.description # ""
                       THEN str_strip(input_desc \o " " \o info.description)
                       ELSE input_desc
      item_specifics_text == IF taken /\ info.item_specifics # << >>
                               THEN _build_description_from_specifics(info.item_specifics)
                               ELSE ""
  IN  [ product_name   |-> IF taken /\ input_name = "" /\ info.title # ""
                             THEN info.title ELSE input_name,
        description    |-> IF item_specifics_text # ""
                             THEN str_strip(description \o " " \o item_specifics_text)
                             ELSE description,
        item_specifics |-> IF taken THEN info.item_specifics ELSE << >>,
        category_path  |-> IF taken THEN info.category_path ELSE "" ]

\* a variant of the condition of the automatic save that looks at the label only
auto_saved_by_label(candidates) == candidates[1].confidence # "low"

\* the condition under which the run saves candidates[0] itself
auto_saved(candidates) == candidates[1].confidence # "low" \/ Len(candidates) = 1

is_low_multi(all_candidates) ==
  (IF all_candidates # << >> THEN all_candidates[1].confidence ELSE "low") = "low"
    /\ Len(all_candidates) > 1

\* the dict the run and the adoption hand to save_result
result_of(product_name, url, cand, confidence) ==
  [ product_name |-> product_name, url |-> url, hs6 |-> cand.hs6, hts |-> cand.hts,
    jp_hs |-> cand.jp_hs, confidence |-> confidence, reason |-> cand.reason,
    category |-> cand.category, material |-> cand.material, usage |-> cand.usage,
    chapter |-> cand.chapter ]

\* the row INSERT INTO history writes (created_at, the wall clock, is left out)
history_row(row_id, res) ==
  [ id |-> row_id, product_name |-> res.product_name, url |-> res.url, hs6 |-> res.hs6,
    hts |-> res.hts, jp_hs |-> res.jp_hs, confidence |-> res.confidence,
    reason |-> res.reason, category |-> res.category, material |-> res.material,
    usage_ |-> res.usage, chapter |-> res.chapter ]

\* the tables after save_result(res)
save_result(rows, seq, res) ==
  [ history |-> Append(rows, history_row(seq.history + 1, res)),
    sqlite_sequence |-> [ seq EXCEPT !.history = @ + 1 ] ]

\* pending.get(key, "") of st.session_state.get("pending_save", {})
pending_get(pending, key) ==
  IF pending = << >> THEN "" ELSE IF key = "product_name" THEN pending.product_name ELSE pending.url

ALLOWED_FIELDS == { "hs6", "hts", "jp_hs", "confidence", "reason" }

set_field(row, field, new_value) ==
  IF field = "hs6" THEN [ row EXCEPT !.hs6 = new_value ]
  ELSE IF field = "hts" THEN [ row EXCEPT !.hts = new_value ]
  ELSE IF field = "jp_hs" THEN [ row EXCEPT !.jp_hs = new_value ]
  ELSE IF field = "confidence" THEN [ row EXCEPT !.confidence = new_value ]
  ELSE IF field = "reason" THEN [ row EXCEPT !.reason = new_value ]
  ELSE row

get_field(row, field) ==
  IF field = "hs6" THEN row.hs6
  ELSE IF field = "hts" THEN row.hts
  ELSE IF field = "jp_hs" THEN row.jp_hs
  ELSE IF field = "confidence" THEN row.confidence
  ELSE IF field = "reason" THEN row.reason
  ELSE ""

\* the tables after update_history_field (foreign keys are not enforced: the connection
\* never sets PRAGMA foreign_keys; edited_at, the wall clock, is left out)
update_history_field(rows, log, seq, row_id, field, old_value, new_value) ==
  IF field \notin ALLOWED_FIELDS
    THEN [ history |-> rows, edit_log |-> log, sqlite_sequence |-> seq ]
    ELSE [ history |-> [ n \in 1..Len(rows) |->
                           IF rows[n].id = row_id THEN set_field(rows[n], field, new_value)
                           ELSE rows[n] ],
           edit_log |-> Append(log, [ id |-> seq.edit_log + 1, history_id |-> row_id,
                                      field |-> field, old_value |-> old_value,
                                      new_value |-> new_value ]),
           sqlite_sequence |-> [ seq EXCEPT !.edit_log = @ + 1 ] ]

\* the tables after delete_history_row
delete_history_row(rows, log, row_id) ==
  [ history |-> SelectSeq(rows, LAMBDA r : r.id # row_id),
    edit_log |-> SelectSeq(log, LAMBDA l : l.history_id # row_id) ]

(***************************************************************************)
(* What the user enters and what the providers answer.                     *)
(***************************************************************************)
UiUrls == { "", "https://www.ebay.com/itm/1234", "https://shop.example.com/p/1" }

UiNames == { "", "tablet", "xyz123 unknown widget" }

UiDescs == { "", "laptop" }

\* fetch_ebay_item: an item, and a timeout
ApiResults ==
  { info_of("Seiko automatic watch", "", << << "Brand", "Seiko" >> >>,
            "Jewelry & Watches > Watches", "", "ebay_api", ""),
    info_of("", "", << >>, "", "eBay API ^12479^12452^12512^12450^12454^12488^12290",
            "ebay_api", "") }

\* scrape_product_info: a page with a title, a page without one, and a connection error
ScrapeResults ==
  { info_of("tablet", "ipad", << >>, "", "", "scraping", ""),
    info_of("", "", << >>, "", "", "scraping", ""),
    info_of("", "", << >>, "",
            "^25509^32154^12456^12521^12540: URL ^12395^25509^32154^12391^12365^12414^12379^12435^12391^12375^12383^12290",
            "scraping", "") }

\* what the user enters and what the providers called in the run answer (None for a
\* provider fetch_product_info does not call)
UiEntered == [ input_name : UiNames, input_desc : UiDescs ]

input_of(entered, input_url, token, api_result, scrape_result) ==
  [ input_url |-> input_url, input_name |-> entered.input_name,
    input_desc |-> entered.input_desc, token |-> token, api_result |-> api_result,
    scrape_result |-> scrape_result ]

UiInputs ==
  { input_of(e, "", FALSE, None, None) : e \in UiEntered }
    \cup { input_of(e, u, FALSE, None, s) :
             e \in UiEntered, u \in UiUrls \ { "" }, s \in ScrapeResults }
    \cup { input_of(e, u, TRUE, a, None) :
             e \in UiEntered, u \in { v \in UiUrls : _is_ebay_url(v) },
             a \in { r \in ApiResults : r.error = "" } }
    \cup { input_of(e, u, TRUE, a, s) :
             e \in UiEntered, u \in { v \in UiUrls : _is_ebay_url(v) },
             a \in { r \in ApiResults : r.error # "" }, s \in ScrapeResults }

\* info of the run (None when no URL is given, where fetch_product_info is not called)
info_of_run(i) ==
  IF i.input_url # ""
    THEN fetch_product_info(i.input_url, i.token, i.api_result, i.scrape_result)
    ELSE None

\* the arguments of classify_product in the run, None when the run stops before the call
request_of_run(i, info) ==
  IF i.input_url = "" /\ i.input_name = ""
    THEN None
    ELSE IF run_locals(i.input_url, i.input_name, i.input_desc, info).product_name = ""
      THEN None
      ELSE run_locals(i.input_url, i.input_name, i.input_desc, info)

\* classify_product for every request a run can make, no arbitrator key configured
UiClassified ==
  [ r \in { request_of_run(i, info_of_run(i)) : i \in UiInputs } \ { None } |->
      rule_based_pipeline(r.product_name, r.description, r.item_specifics, r.category_path,
                          EmptyCache).candidates ]

MaxRowId == MaxHistory + 1

EditFields == { "hs6", "confidence", "product_name" }

NewValues == { "", "9999.99" }

\* what the handlers of the page do not touch
UiFrame ==
  UNCHANGED << secrets_key, environ_key, ls_anthropic_api_key, db_anthropic_api_key,
               re_cache, claude_api_calls, request, used_api_key, ai_reply, result, prev,
               rs_input, rs_result, rs_pc, pl_request, pl_out, pl_pc,
               mk_input, mk_matched, mk_pc, sc_input, sc_out, sc_pc,
               ebay_credentials, ebay_token, ebay_token_expires, tk_now, tk_issued, tk_callers,
               kp_input, kp_out, kp_pc,
               ls_ebay_client, db_ebay_client, ebay_preconfigured, ls_settings_pin, ls_keys_loaded, local_storage, pin_last >>

InitUi ==
  /\ SessionIdle
  /\ ResolverIdle
  /\ PipelineIdle
  /\ MatcherIdle
  /\ SelectorIdle
  /\ TokenIdle
  /\ ScorerIdle
  /\ UiIdle
  /\ PinIdle

\* the run stops at a warning: no URL and no name, or no product name after the fetch
RunStops ==
  \E i \in UiInputs :
    \E info \in { info_of_run(i) } :
      /\ request_of_run(i, info) = None
      /\ st_scraped_info' = IF i.input_url # "" THEN info ELSE st_scraped_info
      /\ ui_last' = [ kind |-> "run", input_url |-> i.input_url, input_name |-> i.input_name,
                      input_desc |-> i.input_desc, classified |-> None ]
      /\ UNCHANGED << st_results, st_pending_save, st_selected_candidate, history, edit_log,
                      sqlite_sequence, ui_shown_run >>
      /\ UiFrame

\* the run classifies, shows the candidates and saves the first one or leaves it pending
RunClassifies ==
  \E i \in UiInputs :
    \E info \in { info_of_run(i) } :
      \E req \in { request_of_run(i, info) } \ { None } :
        \E candidates \in { UiClassified[req] } :
          /\ sqlite_sequence.history < MaxHistory
          /\ st_scraped_info' = IF i.input_url # "" THEN info ELSE st_scraped_info
          /\ st_results' = candidates
          /\ st_selected_candidate' = None
          /\ IF auto_saved(candidates)
               THEN /\ \E db \in { save_result(history, sqlite_sequence,
                                               result_of(req.product_name, i.input_url,
                                                         candidates[1],
                                                         candidates[1].confidence)) } :
                         /\ history' = db.history
                         /\ sqlite_sequence' = db.sqlite_sequence
                    /\ UNCHANGED st_pending_save
               ELSE /\ st_pending_save' = [ product_name |-> req.product_name,
                                            url |-> i.input_url ]
                    /\ UNCHANGED << history, sqlite_sequence >>
          /\ ui_shown_run' = [ product_name |-> req.product_name, url |-> i.input_url ]
          /\ ui_last' = [ kind |-> "run", input_url |-> i.input_url,
                          input_name |-> i.input_name, input_desc |-> i.input_desc,
                          classified |-> req ]
          /\ UNCHANGED edit_log
          /\ UiFrame

\* the button of candidate idx, shown when the first candidate is low and there are others
AdoptCandidate ==
  \E idx \in 0..(Len(st_results) - 1) :
    /\ is_low_multi(st_results)
    /\ sqlite_sequence.history < MaxHistory
    /\ st_selected_candidate' = idx
    /\ \E db \in { save_result(history, sqlite_sequence,
                               result_of(pending_get(st_pending_save, "product_name"),
                                         pending_get(st_pending_save, "url"),
                                         st_results[idx + 1], "manual")) } :
         /\ history' = db.history
         /\ sqlite_sequence' = db.sqlite_sequence
    /\ ui_last' = [ kind |-> "adopt", idx |-> idx ]
    /\ UNCHANGED << st_results, st_pending_save, st_scraped_info, edit_log, ui_shown_run >>
    /\ UiFrame

NextUi ==
  \/ RunStops
  \/ RunClassifies
  \/ AdoptCandidate

SpecUi == InitUi /\ [][NextUi]_vars

(***************************************************************************)
(* The tables: rows saved, edited and deleted.                             *)
(***************************************************************************)
\* results handed to save_result
DbResults ==
  { result_of("xyz123 unknown widget", "", UNCLASSIFIED, "low"),
    result_of("tablet", "https://shop.example.com/p/1", UNCLASSIFIED, "manual") }

SaveResult ==
  \E res \in DbResults :
    /\ sqlite_sequence.history < MaxHistory
    /\ \E db \in { save_result(history, sqlite_sequence, res) } :
         /\ history' = db.history
         /\ sqlite_sequence' = db.sqlite_sequence
    /\ ui_last' = [ kind |-> "save" ]
    /\ UNCHANGED << st_results, st_pending_save, st_selected_candidate, st_scraped_info,
                    edit_log, ui_shown_run >>
    /\ UiFrame

\* the administrator deletes the row with the id entered (the section is shown when the
\* table has rows)
DeleteHistoryRow ==
  \E del_id \in 1..MaxRowId :
    /\ history # << >>
    /\ \E db \in { delete_history_row(history, edit_log, del_id) } :
         /\ history' = db.history
         /\ edit_log' = db.edit_log
    /\ ui_last' = [ kind |-> "delete", row_id |-> del_id ]
    /\ UNCHANGED << st_results, st_pending_save, st_selected_candidate, st_scraped_info,
                    sqlite_sequence, ui_shown_run >>
    /\ UiFrame

\* the administrator saves a new value for a field of the row with the id entered;
\* "product_name" stands for a call of update_history_field with a field that is not allowed
UpdateHistoryField ==
  \E edit_id \in 1..MaxRowId, edit_field \in EditFields, new_val \in NewValues :
    /\ history # << >>
    /\ sqlite_sequence.edit_log < MaxEdits
    /\ \E current_val \in { IF \E n \in 1..Len(history) : history[n].id = edit_id
                              THEN get_field(history[CHOOSE n \in 1..Len(history) :
                                                       history[n].id = edit_id], edit_field)
                              ELSE "" } :
         \E db \in { IF new_val # ""
                       THEN update_history_field(history, edit_log, sqlite_sequence, edit_id,
                                                 edit_field, current_val, new_val)
                       ELSE [ history |-> history, edit_log |-> edit_log,
                              sqlite_sequence |-> sqlite_sequence ] } :
           /\ history' = db.history
           /\ edit_log' = db.edit_log
           /\ sqlite_sequence' = db.sqlite_sequence
    /\ ui_last' = [ kind |-> "edit", row_id |-> edit_id, field |-> edit_field,
                    new_value |-> new_val ]
    /\ UNCHANGED << st_results, st_pending_save, st_selected_candidate, st_scraped_info,
                    ui_shown_run >>
    /\ UiFrame

NextDb ==
  \/ SaveResult
  \/ DeleteHistoryRow
  \/ UpdateHistoryField

SpecDb == InitUi /\ [][NextDb]_vars

(***************************************************************************)
(* The settings sidebar: keys the user enters, the management PIN, and the *)
(* browser's localStorage behind them.                                     *)
(***************************************************************************)
\* hashlib.sha256(pin.encode()).hexdigest() for the PINs entered here
SHA256_HEX ==
  << << "1234", "03ac674216f3e15c761ee1a5e255f067953623c8b388b4459e13f978d7c846f4" >>,
     << "0000", "9af15b336e6a9619928537df30b2e6a2376569fcf9d7e773eccede65606529a0" >>,
     << "12", "6b51d431df5d7f141cbececcf79edf3dd861c3b4069f0b11661a3eefacbba918" >>,
     << "", "e3b0c44298fc1c149afbf4c8996fb92427ae41e4649b934ca495991b7852b855" >> >>

sha256_hexdigest(pin) == Lookup(SHA256_HEX, pin)

PinsEntered == { "1234", "0000", "12" }

EBAY_PAIR == << "YourApp-PRD-1", "PRD-secret-1" >>

CLAUDE_KEY == "sk-ant-1"

\* bool(ebay_cid and ebay_csec) of _get_ebay_client_credentials()
ebay_configured(preconfigured, ls_pair, db_pair) ==
  preconfigured \/ ls_pair # "" \/ db_pair # ""

\* the cached token and its expiry after _fetch_ebay_app_token answered with a token
\* (expires_in 7200) or failed
token_after_fetch(answered, now, token, expires) ==
  IF answered THEN [ token |-> 1, expires |-> now + 7200 - 60 ]
  ELSE [ token |-> token, expires |-> expires ]

\* _ls_settings_pin after a disconnect that succeeded: kept while the other key entered
\* in the browser is still in the session
pin_after_disconnect(other_ls_key, pin) == IF other_ls_key = "" THEN "" ELSE pin

\* the disconnect goes ahead: no PIN stored, or the PIN entered hashes to the stored one
disconnect_allowed(stored_pin, pin_entered) ==
  ~ (stored_pin # "" /\ sha256_hexdigest(pin_entered) # stored_pin)

\* what the handlers of the sidebar do not touch
PinFrame ==
  UNCHANGED << secrets_key, environ_key, re_cache, claude_api_calls, request, used_api_key,
               ai_reply, result, prev, rs_input, rs_result, rs_pc, pl_request, pl_out, pl_pc,
               mk_input, mk_matched, mk_pc, sc_input, sc_out, sc_pc,
               tk_now, tk_issued, tk_callers, kp_input, kp_out, kp_pc,
               st_results, st_pending_save, st_selected_candidate, st_scraped_info, history,
               edit_log, sqlite_sequence, ui_shown_run, ui_last, ebay_preconfigured >>

\* what the browser holds when the session starts: nothing, or what an earlier session saved
StoredBefore ==
  { [ ak |-> "", ebay |-> "", pin |-> "" ],
    [ ak |-> CLAUDE_KEY, ebay |-> EBAY_PAIR, pin |-> sha256_hexdigest("1234") ] }

InitPin ==
  /\ secrets_key = "" /\ environ_key \in { "", "sk-ant-env" }
  /\ ls_anthropic_api_key = "" /\ db_anthropic_api_key \in { "", "sk-ant-db" }
  /\ re_cache = EmptyCache /\ claude_api_calls = 0
  /\ request = None /\ used_api_key = "" /\ ai_reply = None /\ result = None /\ prev = None
  /\ ResolverIdle
  /\ PipelineIdle
  /\ MatcherIdle
  /\ SelectorIdle
  /\ ScorerIdle
  /\ UiIdle
  /\ ebay_preconfigured \in BOOLEAN
  /\ ls_ebay_client = "" /\ db_ebay_client \in { "", << "legacy-id", "legacy-secret" >> }
  /\ ebay_credentials = ebay_configured(ebay_preconfigured, ls_ebay_client, db_ebay_client)
  /\ ebay_token = 0 /\ ebay_token_expires = 0
  /\ tk_now = 0 /\ tk_issued = << >> /\ tk_callers = << >>
  /\ ls_settings_pin = "" /\ ls_keys_loaded = FALSE
  /\ local_storage \in StoredBefore
  /\ pin_last = [ kind |-> "start" ]

\* _load_local_storage_keys once the browser has answered: entries that are not empty are
\* copied into the session
LoadLocalStorageKeys ==
  /\ ~ ls_keys_loaded
  /\ ls_anthropic_api_key' = IF local_storage.ak # "" THEN local_storage.ak
                             ELSE ls_anthropic_api_key
  /\ ls_ebay_client' = IF local_storage.ebay # "" THEN local_storage.ebay ELSE ls_ebay_client
  /\ ls_settings_pin' = IF local_storage.pin # "" THEN local_storage.pin ELSE ls_settings_pin
  /\ ls_keys_loaded' = TRUE
  /\ ebay_credentials' = ebay_configured(ebay_preconfigured, ls_ebay_client', db_ebay_client)
  /\ pin_last' = [ kind |-> "load" ]
  /\ UNCHANGED << db_anthropic_api_key, db_ebay_client, ebay_token, ebay_token_expires,
                  local_storage >>
  /\ PinFrame

\* "save and connect" of the eBay section, shown while no credentials are found; the writes
\* queued for localStorage are carried out by _process_local_storage_ops of the rerun
SaveEbay ==
  \E cid_val \in { "", EBAY_PAIR[1] }, csec_val \in { "", EBAY_PAIR[2] },
     pin_input \in PinsEntered, answered \in BOOLEAN :
    /\ ~ ebay_configured(ebay_preconfigured, ls_ebay_client, db_ebay_client)
    /\ pin_last' = [ kind |-> "save_ebay", pin |-> pin_input ]
    /\ IF cid_val = "" \/ csec_val = "" \/ (ls_settings_pin = "" /\ Len(pin_input) < 4)
         THEN UNCHANGED << ls_ebay_client, ls_settings_pin, local_storage, ebay_token,
                           ebay_token_expires, ebay_credentials >>
         ELSE \E tok \in { token_after_fetch(answered, tk_now, ebay_token,
                                             ebay_token_expires) } :
                /\ ebay_token' = tok.token
                /\ ebay_token_expires' = tok.expires
                /\ IF answered
                     THEN /\ ls_ebay_client' = << cid_val, csec_val >>
                          /\ ls_settings_pin' = IF ls_settings_pin = ""
                                                  THEN sha256_hexdigest(pin_input)
                                                  ELSE ls_settings_pin
                          /\ local_storage' = [ local_storage EXCEPT
                                                  !.ebay = << cid_val, csec_val >>,
                                                  !.pin = IF ls_settings_pin = ""
                                                            THEN sha256_hexdigest(pin_input)
                                                            ELSE @ ]
                          /\ ebay_credentials' = TRUE
                     ELSE UNCHANGED << ls_ebay_client, ls_settings_pin, local_storage,
                                       ebay_credentials >>
    /\ UNCHANGED << ls_anthropic_api_key, db_anthropic_api_key, db_ebay_client, ls_keys_loaded >>
    /\ PinFrame

\* "disconnect" of the eBay section, shown for credentials that are not preconfigured
DisconnectEbay ==
  \E pin_ebay_dc \in PinsEntered :
    /\ ebay_configured(ebay_preconfigured, ls_ebay_client, db_ebay_client)
    /\ ~ ebay_preconfigured
    /\ pin_last' = [ kind |-> "disconnect_ebay", pin |-> pin_ebay_dc ]
    /\ IF ~ disconnect_allowed(ls_settings_pin, pin_ebay_dc)
         THEN UNCHANGED << ls_ebay_client, db_ebay_client, ls_keys_loaded, ebay_token,
                           ebay_token_expires, ls_settings_pin, local_storage,
                           ebay_credentials >>
         ELSE /\ ls_ebay_client' = ""
              /\ ls_keys_loaded' = FALSE
              /\ db_ebay_client' = ""
              /\ ebay_token' = 0
              /\ ebay_token_expires' = 0
              /\ ls_settings_pin' = pin_after_disconnect(ls_anthropic_api_key, ls_settings_pin)
              /\ local_storage' = [ local_storage EXCEPT
                                      !.ebay = "",
                                      !.pin = IF ls_anthropic_api_key = "" THEN "" ELSE @ ]
              /\ ebay_credentials' = FALSE
    /\ UNCHANGED << ls_anthropic_api_key, db_anthropic_api_key >>
    /\ PinFrame

\* "save and connect" of the Claude section, shown while _get_anthropic_api_key finds no key
SaveClaude ==
  \E key_val \in { "", CLAUDE_KEY }, pin_input \in PinsEntered :
    /\ _get_anthropic_api_key(secrets_key, environ_key, ls_anthropic_api_key,
                              db_anthropic_api_key) = ""
    /\ pin_last' = [ kind |-> "save_claude", pin |-> pin_input ]
    /\ IF key_val = "" \/ (ls_settings_pin = "" /\ Len(pin_input) < 4)
         THEN UNCHANGED << ls_anthropic_api_key, ls_settings_pin, local_storage >>
         ELSE /\ ls_anthropic_api_key' = key_val
              /\ ls_settings_pin' = IF ls_settings_pin = "" THEN sha256_hexdigest(pin_input)
                                    ELSE ls_settings_pin
              /\ local_storage' = [ local_storage EXCEPT
                                      !.ak = key_val,
                                      !.pin = IF ls_settings_pin = ""
                                                THEN sha256_hexdigest(pin_input) ELSE @ ]
    /\ UNCHANGED << db_anthropic_api_key, ls_ebay_client, db_ebay_client, ls_keys_loaded,
                    ebay_token, ebay_token_expires, ebay_credentials >>
    /\ PinFrame

\* "disconnect" of the Claude section, shown for a key that is not preconfigured
DisconnectClaude ==
  \E pin_claude_dc \in PinsEntered :
    /\ _get_anthropic_api_key(secrets_key, environ_key, ls_anthropic_api_key,
                              db_anthropic_api_key) # ""
    /\ secrets_key = "" /\ str_strip(environ_key) = ""
    /\ pin_last' = [ kind |-> "disconnect_claude", pin |-> pin_claude_dc ]
    /\ IF ~ disconnect_allowed(ls_settings_pin, pin_claude_dc)
         THEN UNCHANGED << ls_anthropic_api_key, db_anthropic_api_key, ls_keys_loaded,
                           ls_settings_pin, local_storage >>
         ELSE /\ ls_anthropic_api_key' = ""
              /\ ls_keys_loaded' = FALSE
              /\ db_anthropic_api_key' = ""
              /\ ls_settings_pin' = pin_after_disconnect(IF ls_ebay_client = "" THEN ""
                                                         ELSE ls_ebay_client[1],
                                                         ls_settings_pin)
              /\ local_storage' = [ local_storage EXCEPT
                                      !.ak = "",
                                      !.pin = IF ls_ebay_client = "" THEN "" ELSE @ ]
    /\ UNCHANGED << ls_ebay_client, db_ebay_client, ebay_token, ebay_token_expires,
                    ebay_credentials >>
    /\ PinFrame

NextPin ==
  \/ LoadLocalStorageKeys
  \/ SaveEbay
  \/ DisconnectEbay
  \/ SaveClaude
  \/ DisconnectClaude

SpecPin == InitPin /\ [][NextPin]_vars

(***************************************************************************)
(* Properties.                                                             *)
(***************************************************************************)
\* the latest call had an arbitrator and its answer was a 200 with parseable JSON and a
\* non-empty candidate list
ArbitratorSucceeded ==
  /\ request # None
  /\ used_api_key # ""
  /\ ai_reply.transport = "response"
  /\ ai_reply.status_code = 200
  /\ ai_reply.body = "json"
  /\ ai_reply.candidates # << >>

\* what classify_product returns for a request of the session in a fresh process that has
\* no arbitrator
RuleBasedList(req) == ColdRuns[CHOOSE i \in 1..Len(Requests) : Requests[i] = req].candidates

\* the reference list _call_claude_api puts into the prompt, for each request of the session
ReferenceLists ==
  [ i \in 1..Len(Requests) |->
      _build_hts_reference_for_chapters(
        _detect_relevant_chapters(Requests[i].product_name, Requests[i].description,
                                  Requests[i].item_specifics, Requests[i].category_path)) ]

\* code is one of the codes listed for req
InReference(code, req) ==
  str_in("  " \o code \o ": ", ReferenceLists[CHOOSE i \in 1..Len(Requests) : Requests[i] = req])

CANDIDATE_FIELDS == { "hs6", "hts", "jp_hs", "category", "material", "usage", "chapter", "confidence" }

\* the returned entry r is the arbitrator's entry c
IsArbitratorEntry(r, c) ==
  /\ \A f \in CANDIDATE_FIELDS : HasKey(c, f) => r[f] = Lookup(c, f)
  /\ HasKey(c, "reason") => r.reason = "[AI] " \o Lookup(c, "reason")

\* C1: whatever the request and whatever the arbitrator did (not configured, failing,
\* succeeding), classify_product returns a list of at least 1 and at most 3 candidates.
C1_OneToThreeCandidates == request # None => Len(result) \in 1..3

\* the arbitrator answered with more than three candidates and three were returned
C1_Witness ==
  /\ ArbitratorSucceeded
  /\ Len(ai_reply.candidates) > 3
  /\ Len(result) = 3

\* C2: when the arbitrator succeeds with a non-empty list, classify_product returns exactly
\* the first (at most three) entries of that list and nothing of the rule-based pipeline; in
\* every other case (no key, timeout or network error, non-200, unparseable, empty list) it
\* returns exactly the list the rule-based pipeline gives without arbitrator.
C2_FirstAvailableWins ==
  request # None =>
    IF ArbitratorSucceeded
      THEN /\ Len(result) = Min2(3, Len(ai_reply.candidates))
           /\ \A k \in 1..Len(result) : IsArbitratorEntry(result[k], ai_reply.candidates[k])
      ELSE result = RuleBasedList(request)

\* a key is configured, the endpoint answered 500, and the T-shirt request got its
\* rule-based list
C2_Witness ==
  /\ request # None
  /\ used_api_key # ""
  /\ ai_reply.transport = "response" /\ ai_reply.status_code = 500
  /\ request.product_name = "Men's Cotton T-Shirt"
  /\ result[1].hs6 = "6109.10"

\* C3: an arbitrator answer that carries a code outside the reference list supplied for the
\* request is treated as a failure: classify_product returns the rule-based list.
C3_OutsideReferenceFallsBack ==
  ( /\ ArbitratorSucceeded
    /\ \E k \in 1..Len(ai_reply.candidates) :
         /\ HasKey(ai_reply.candidates[k], "hts")
         /\ ~InReference(Lookup(ai_reply.candidates[k], "hts"), request) )
  => result = RuleBasedList(request)

\* C4: every candidate classify_product returns, on either path, carries a confidence label
\* that is high, medium or low.
C4_ThreeLevelLabels ==
  request # None => \A k \in 1..Len(result) : result[k].confidence \in { "high", "medium", "low" }

\* C5: without arbitrator, two calls with the same arguments return the same list, whatever
\* calls ran before or between them.
C5_Deterministic ==
  ( /\ prev # None
    /\ request # None
    /\ used_api_key = ""
    /\ prev.request = request )
  => result = prev.result

\* the same request was classified twice without arbitrator, the second time with the
\* pattern cache filled, and "cap" still does not match inside "captivating"
C5_Witness ==
  /\ prev # None
  /\ request # None
  /\ used_api_key = ""
  /\ prev.request = request
  /\ request.product_name = "captivating design"
  /\ DOMAIN re_cache # {}
  /\ result[1].chapter = "N/A"

\* the deepest segment of a category path, lowercased and trimmed
DeepestSegment(category_path) == str_lower(str_strip(Last(str_split(category_path, ">"))))

\* C6: when the deepest segment of the category path, lowercased and trimmed, is a key of the
\* leaf table, the resolver returns that key's chapter at confidence 100, whatever the
\* attribute map and the other segments hold.
C6_LeafExactWins ==
  ( /\ rs_pc = "done"
    /\ HasKey(_EBAY_LEAF_CATEGORY_MAP, DeepestSegment(rs_input[2])) )
  => /\ rs_result # None
     /\ rs_result[1] = Lookup(_EBAY_LEAF_CATEGORY_MAP, DeepestSegment(rs_input[2]))
     /\ rs_result[2] = F(100)

\* a path ending in Wristwatches under Men, with a sportswear brand in the attributes, gave
\* Chapter 91 at 100
C6_Witness ==
  /\ rs_pc = "done"
  /\ rs_input[2] = "Men > Wristwatches"
  /\ dict_get(rs_input[1], "Brand") = "Nike"
  /\ rs_result # None
  /\ rs_result[1] = "Chapter 91"
  /\ rs_result[2] = F(100)

\* the five tiers of C7, each as a test on the input and a test on the result
LeafExactHit(levels) == levels # << >> /\ HasKey(_EBAY_LEAF_CATEGORY_MAP, levels[1])

LeafExactResult(levels, r) ==
  r[1] = Lookup(_EBAY_LEAF_CATEGORY_MAP, levels[1]) /\ r[2] = F(100)

LeafPartialKeys(levels) ==
  IF levels = << >> THEN { }
  ELSE { i \in 1..Len(_EBAY_LEAF_CATEGORY_MAP) :
           \/ str_in(_EBAY_LEAF_CATEGORY_MAP[i][1], levels[1])
           \/ str_in(levels[1], _EBAY_LEAF_CATEGORY_MAP[i][1]) }

LeafPartialResult(levels, r) ==
  r[2] = F(90) /\ \E i \in LeafPartialKeys(levels) : r[1] = _EBAY_LEAF_CATEGORY_MAP[i][2]

AncestorHits(levels) ==
  { i \in 2..Len(levels) : \/ HasKey(_EBAY_LEAF_CATEGORY_MAP, levels[i])
                           \/ HasKey(_EBAY_PARENT_CATEGORY_MAP, levels[i]) }

\* levels run from the deepest segment to the shallowest: the deepest ancestor that hits
AncestorResult(levels, r) ==
  LET i == CHOOSE i \in AncestorHits(levels) : \A j \in AncestorHits(levels) : i <= j
  IN  IF HasKey(_EBAY_LEAF_CATEGORY_MAP, levels[i])
        THEN r[1] = Lookup(_EBAY_LEAF_CATEGORY_MAP, levels[i]) /\ r[2] = F(70)
        ELSE r[1] = Lookup(_EBAY_PARENT_CATEGORY_MAP, levels[i]) /\ r[2] = F(60)

Registered(item_specifics, field) ==
  /\ HasKey(item_specifics, field)
  /\ HasKey(_ITEM_TYPE_TO_CHAPTER, str_lower(str_strip(Lookup(item_specifics, field))))

FieldHits(item_specifics) ==
  { i \in 1..4 : Registered(item_specifics, << "Type", "Category", "Product Type", "Sub-Type" >>[i]) }

FieldResult(item_specifics, r) ==
  LET i == CHOOSE i \in FieldHits(item_specifics) : \A j \in FieldHits(item_specifics) : i <= j
      f == << "Type", "Category", "Product Type", "Sub-Type" >>[i]
  IN  /\ r[1] = Lookup(_ITEM_TYPE_TO_CHAPTER, str_lower(str_strip(Lookup(item_specifics, f))))
      /\ r[2] = F(80)

BrandHit(item_specifics) ==
  /\ HasKey(item_specifics, "Brand")
  /\ HasKey(_BRAND_CATEGORY, str_lower(str_strip(Lookup(item_specifics, "Brand"))))

BrandResult(item_specifics, r) ==
  /\ r[1] = Lookup(_BRAND_CATEGORY, str_lower(str_strip(Lookup(item_specifics, "Brand"))))
  /\ r[2] >= F(40)
  /\ r[2] < F(60)

\* C7: the resolver returns the result of the first tier that succeeds, in the order leaf
\* exact (100), leaf partial (90), ancestor from the deepest to the shallowest (70 for a
\* leaf-table hit, 60 for a parent-table hit), attribute fields Type, Category, Product Type,
\* Sub-Type (80), brand (40 and up); it returns nothing exactly when all five fail.
C7_FirstTierWins ==
  rs_pc = "done" =>
    LET levels == _extract_all_category_levels(rs_input[2])
        sp     == rs_input[1]
        r      == rs_result
    IN  IF LeafExactHit(levels) THEN r # None /\ LeafExactResult(levels, r)
        ELSE IF LeafPartialKeys(levels) # { } THEN r # None /\ LeafPartialResult(levels, r)
        ELSE IF AncestorHits(levels) # { } THEN r # None /\ AncestorResult(levels, r)
        ELSE IF FieldHits(sp) # { } THEN r # None /\ FieldResult(sp, r)
        ELSE IF BrandHit(sp) THEN r # None /\ BrandResult(sp, r)
        ELSE r = None

\* under a leaf that matches nothing, the parent-table ancestor Men won at 60 over the
\* registered Type value Watch
C7_Witness ==
  /\ rs_pc = "done"
  /\ rs_input[2] = "Men > Qzx Vvv"
  /\ dict_get(rs_input[1], "Type") = "Watch"
  /\ rs_result # None
  /\ rs_result[1] = "Chapter 62"
  /\ rs_result[2] = F(60)

\* C8: with a resolver result (C, c), a scored rule of chapter C gets score + c and a scored
\* rule of another chapter gets score x 0.05 when c >= 80, x 0.2 when 60 <= c < 80, x 0.5 when
\* c < 60 (so at c = 100 at most 5% of its score); without resolver result the score stays.
C8_FusionArithmetic ==
  pl_pc = "done" =>
    /\ Len(pl_out.adjusted) = Len(pl_out.scored)
    /\ \A k \in 1..Len(pl_out.scored) :
         LET s    == pl_out.scored[k][1]
             rule == pl_out.scored[k][2]
             f    == pl_out.adjusted[k][1]
             e    == pl_out.ebay_result
         IN  /\ pl_out.adjusted[k][2] = rule
             /\ IF e = None THEN f = s
                ELSE IF rule.chapter = e[1] THEN f = s + e[2]
                ELSE IF e[2] >= F(80) THEN f * 100 = s * 5
                ELSE IF e[2] >= F(60) THEN f * 10 = s * 2
                ELSE f * 2 = s
             /\ (e # None /\ e[2] = F(100) /\ rule.chapter # e[1]) => f * 100 <= s * 5

\* the resolver said 80 (a registered Type) and a rule of another chapter had matched keywords
C8_Witness ==
  /\ pl_pc = "done"
  /\ pl_out.ebay_result # None
  /\ pl_out.ebay_result[2] = F(80)
  /\ \E k \in 1..Len(pl_out.scored) :
       /\ pl_out.scored[k][2].chapter # pl_out.ebay_result[1]
       /\ pl_out.scored[k][1] > 0
       /\ pl_out.adjusted[k][1] * 100 = pl_out.scored[k][1] * 5

IPhoneCase ==
  request_of("iPhone case", "", << << "Type", "phone case" >> >>,
             "Cell Phones & Accessories > Cell Phone Cases, Covers & Skins")

\* C9: without arbitrator, when the resolver says chapter C at 80 or more and the corpus has
\* a rule of chapter C, the top candidate is of chapter C with confidence high and no rule of
\* another chapter is ranked above a rule of chapter C; 'iPhone case' with Type 'phone case'
\* under 'Cell Phones & Accessories > Cell Phone Cases, Covers & Skins' gives resolver
\* confidence 100 on Chapter 42 and a top candidate of Chapter 42 rated high.
C9_ResolverChapterOnTop ==
  pl_pc = "done" =>
    /\ ( /\ pl_out.ebay_result # None
         /\ pl_out.ebay_result[2] >= F(80)
         /\ \E i \in 1..Len(CLASSIFICATION_RULES) :
              CLASSIFICATION_RULES[i].chapter = pl_out.ebay_result[1] )
       => /\ pl_out.candidates[1].chapter = pl_out.ebay_result[1]
          /\ pl_out.candidates[1].confidence = "high"
          /\ \A i, j \in 1..Len(pl_out.sorted) :
               ( /\ pl_out.sorted[i][2].chapter # pl_out.ebay_result[1]
                 /\ pl_out.sorted[j][2].chapter = pl_out.ebay_result[1] ) => j < i
    /\ pl_request = IPhoneCase
       => /\ pl_out.ebay_result # None
          /\ pl_out.ebay_result[1] = "Chapter 42"
          /\ pl_out.ebay_result[2] = F(100)
          /\ pl_out.candidates[1].chapter = "Chapter 42"
          /\ pl_out.candidates[1].confidence = "high"

\* the iPhone case whose description also matches rules of other chapters (ring, watch
\* strap): Chapter 42 stays on top
C9_Witness ==
  /\ pl_pc = "done"
  /\ pl_request.product_name = "iPhone case"
  /\ pl_request.description = "Rolex gold ring with leather strap"
  /\ pl_request.category_path = "Cell Phones & Accessories > Cell Phone Cases, Covers & Skins"
  /\ pl_out.ebay_result[2] = F(100)
  /\ pl_out.candidates[1].chapter = "Chapter 42"
  /\ \E i \in 1..Len(pl_out.scored) :
       pl_out.scored[i][2].chapter # "Chapter 42" /\ pl_out.scored[i][1] >= F(1)

TShirt == request_of("Men's Cotton T-Shirt", "", << >>, "")

\* C10 as the specification states it: "Men's Cotton T-Shirt", with no description, no
\* attributes and no category path, has the T-shirt rule (Chapter 61, 6109.10) on top with
\* confidence high.
C10_TShirtHigh ==
  (pl_pc = "done" /\ pl_request = TShirt)
  => /\ pl_out.candidates[1].hs6 = "6109.10"
     /\ pl_out.candidates[1].chapter = "Chapter 61"
     /\ pl_out.candidates[1].confidence = "high"

\* C10, amended: the same request has the T-shirt rule (Chapter 61, 6109.10) on top with
\* confidence low: the name matches one keyword of the rule, a score of 1.0, under the 2.0
\* that medium takes.
C10_TShirtLow ==
  (pl_pc = "done" /\ pl_request = TShirt)
  => /\ pl_out.candidates[1].hs6 = "6109.10"
     /\ pl_out.candidates[1].chapter = "Chapter 61"
     /\ pl_out.candidates[1].confidence = "low"
     /\ pl_out.sorted[1][1] = F(1)

\* the T-shirt request was classified: the T-shirt rule first, the woven-shirt rule (matched
\* by "shirt") second
C10_Witness ==
  /\ pl_pc = "done"
  /\ pl_request = TShirt
  /\ pl_out.ebay_result = None
  /\ Len(pl_out.candidates) = 2
  /\ pl_out.candidates[1].hs6 = "6109.10"
  /\ pl_out.candidates[2].hs6 = "6205.20"

EngineOilCap == request_of("engine oil cap replacement", "", << >>, "")

BaseballCap == request_of("baseball cap with logo", "", << >>, "")

\* C11: without arbitrator and without marketplace data, 'engine oil cap replacement' ('cap'
\* with the automotive co-occurrence words 'engine' and 'oil') has a top candidate of
\* Chapter 87 and not of Chapter 65, the other chapter 'cap' is registered for; 'baseball cap
\* with logo', with no automotive co-occurrence word, has no top candidate of Chapter 87.
C11_AutomotiveContextWins ==
  pl_pc = "done" =>
    /\ pl_request = EngineOilCap
       => /\ pl_out.candidates[1].chapter = "Chapter 87"
          /\ pl_out.candidates[1].chapter # "Chapter 65"
    /\ pl_request = BaseballCap => pl_out.candidates[1].chapter # "Chapter 87"

UnknownWidget == request_of("xyz123 unknown widget", "", << >>, "")

\* the sentinel: placeholder codes, chapter N/A, confidence low
IsSentinel(c) ==
  /\ c.hs6 = "-----.--"
  /\ c.hts = "----------"
  /\ c.jp_hs = "---------"
  /\ c.chapter = "N/A"
  /\ c.confidence = "low"

\* C12: without arbitrator, when no rule scores above zero and the resolver produces nothing,
\* the call returns (it raises nothing) exactly one candidate, the sentinel with placeholder
\* codes, chapter N/A and confidence low; so it does for 'xyz123 unknown widget' with an empty
\* description and no attributes.
C12_SentinelWhenNoSignal ==
  pl_pc = "done" =>
    /\ pl_out.candidates # << >>
    /\ ( /\ \A i \in 1..Len(pl_out.scores) : pl_out.scores[i] <= 0
         /\ pl_out.ebay_result = None )
       => /\ Len(pl_out.candidates) = 1
          /\ IsSentinel(pl_out.candidates[1])
    /\ pl_request = UnknownWidget
       => /\ Len(pl_out.candidates) = 1
          /\ IsSentinel(pl_out.candidates[1])

\* 'xyz123 unknown widget' went through the four steps: every rule scored zero, the resolver
\* was not asked, one sentinel came back
C12_Witness ==
  /\ pl_pc = "done"
  /\ pl_request = UnknownWidget
  /\ pl_out.ebay_result = None
  /\ Len(pl_out.scores) = Len(CLASSIFICATION_RULES)
  /\ \A i \in 1..Len(pl_out.scores) : pl_out.scores[i] = 0
  /\ pl_out.sorted = << >>
  /\ pl_out.candidates = << UNCLASSIFIED >>

\* C13: a call with an empty product name and an empty description declines to classify, and
\* what it returns differs from the sentinel list a text that matched nothing gets.
C13_NoTextIsNotUnclassifiable ==
  ( /\ pl_pc = "done"
    /\ pl_request.product_name = ""
    /\ pl_request.description = "" )
  => /\ pl_out.candidates # << UNCLASSIFIED >>
     /\ ~ ( Len(pl_out.candidates) = 1 /\ IsSentinel(pl_out.candidates[1]) )

\* the text holds none of the rule's keywords, as a plain substring of the lowercased text
NoKeywordIn(rule, text) ==
  \A k \in 1..Len(rule.keywords) : ~str_in(str_lower(rule.keywords[k]), str_lower(text))

\* the boosts _score_rule gives without any keyword hit
KeylessBoost(rule_chapter, ctx) ==
  (IF ctx.brand_chapter = "Chapter 87" /\ rule_chapter = "Chapter 87" THEN ctx.auto_boost
   ELSE IF ctx.brand_chapter = "Chapter 91" /\ rule_chapter = "Chapter 91" THEN F(5)
   ELSE IF /\ ctx.brand_chapter = "Chapter 61"
           /\ ctx.brand_name \in _SHOE_PRIMARY_BRANDS
           /\ rule_chapter = "Chapter 64" THEN F(3)
   ELSE 0)
  + (IF ctx.has_part_number /\ rule_chapter \in { "Chapter 87", "Chapter 84", "Chapter 85" }
       THEN F(3) ELSE 0)

IsAsciiLetter(c) == c \in UPPER_CHARS \cup LOWER_CHARS

IsShortWord(kw) == Len(kw) \in 1..4 /\ \A i \in 1..Len(kw) : IsAsciiLetter(CharAt(kw, i))

\* where kw starts in text, letter case set aside
OccurrencesOf(kw, text) ==
  { i \in 1..(Len(text) - Len(kw) + 1) :
      str_lower(SubSeq(text, i, i + Len(kw) - 1)) = str_lower(kw) }

\* the occurrence at i has no ASCII letter on either side
StandsAlone(kw, text, i) ==
  /\ i = 1 \/ ~IsAsciiLetter(CharAt(text, i - 1))
  /\ i + Len(kw) > Len(text) \/ ~IsAsciiLetter(CharAt(text, i + Len(kw)))

\* C15: a keyword of at most four ASCII letters matches exactly when some occurrence of it in
\* the text has no ASCII letter directly before or after it ('cap' matches neither
\* 'captivating design' nor 'capture'); any other keyword matches exactly when it occurs in
\* the text, letter case set aside.
C15_ShortKeywordsMatchWholeWords ==
  mk_pc = "done" =>
    /\ mk_matched <=>
         IF IsShortWord(mk_input[1])
           THEN \E i \in OccurrencesOf(mk_input[1], mk_input[2]) :
                  StandsAlone(mk_input[1], mk_input[2], i)
           ELSE OccurrencesOf(mk_input[1], mk_input[2]) # {}
    /\ mk_input[1] = "cap" /\ mk_input[2] \in {"captivating design", "capture"} => ~mk_matched

\* 'cap' was tested against 'captivating design' with its pattern already in the cache and was
\* turned down
C15_Witness ==
  /\ mk_pc = "done"
  /\ mk_input = << "cap", "captivating design" >>
  /\ ~mk_matched
  /\ "cap" \in DOMAIN re_cache /\ "led" \in DOMAIN re_cache

(***************************************************************************)
(* Context Detector: the brand.                                            *)
(***************************************************************************)
\* the entries of _BRAND_CATEGORY whose token occurs in the lowered text
BrandsPresent(text) ==
  { i \in 1..Len(_BRAND_CATEGORY) : str_in(_BRAND_CATEGORY[i][1], str_lower(text)) }

\* C16: the detected brand is a brand token that occurs in the lowercased text, its chapter is
\* the one the brand table gives it, and no brand token strictly longer than it occurs in the
\* text; when no brand token occurs, neither a brand nor a brand chapter is detected.
C16_LongestBrandDetected ==
  pl_pc = "done" =>
    IF BrandsPresent(pl_out.combined) = {}
      THEN pl_out.ctx.brand_name = "" /\ pl_out.ctx.brand_chapter = ""
      ELSE \E i \in BrandsPresent(pl_out.combined) :
             /\ pl_out.ctx.brand_name = _BRAND_CATEGORY[i][1]
             /\ pl_out.ctx.brand_chapter = _BRAND_CATEGORY[i][2]
             /\ \A j \in BrandsPresent(pl_out.combined) :
                  Len(_BRAND_CATEGORY[j][1]) <= Len(_BRAND_CATEGORY[i][1])

\* 'tom ford' was detected in a text where the shorter token 'ford', of another chapter and
\* earlier in the table, occurs as well
C16_Witness ==
  /\ pl_pc = "done"
  /\ pl_request.product_name = "Tom Ford perfume"
  /\ Cardinality(BrandsPresent(pl_out.combined)) >= 2
  /\ pl_out.ctx.brand_name = "tom ford"
  /\ pl_out.ctx.brand_chapter = "Chapter 33"

(***************************************************************************)
(* The rule-based result list.                                             *)
(***************************************************************************)
\* the 6-digit codes of the ranked rules
CodesOf(sorted) == { sorted[i][2].hs6 : i \in 1..Len(sorted) }

\* where the highest-ranked rule carrying code h stands
TopRankOf(sorted, h) ==
  CHOOSE i \in 1..Len(sorted) :
    /\ sorted[i][2].hs6 = h
    /\ \A j \in 1..(i - 1) : sorted[j][2].hs6 # h

\* the codes ranked above position p
CodesAbove(sorted, p) == { sorted[j][2].hs6 : j \in 1..(p - 1) }

\* C17: the ranked rules are in non-increasing order of fused score; when any rule is ranked,
\* the result list has no two candidates with the same 6-digit code, each candidate is made
\* from the highest-ranked rule carrying its code, the candidates stand in rank order with no
\* code of a higher rank left out, and the list has three candidates, or as many as there
\* are distinct codes when those are fewer.
C17_RankedDistinctTopThree ==
  pl_pc = "done" /\ pl_out.sorted # << >> =>
    /\ \A i \in 1..(Len(pl_out.sorted) - 1) : pl_out.sorted[i][1] >= pl_out.sorted[i + 1][1]
    /\ \A k, l \in 1..Len(pl_out.candidates) :
         k # l => pl_out.candidates[k].hs6 # pl_out.candidates[l].hs6
    /\ Len(pl_out.candidates) = Min2(3, Cardinality(CodesOf(pl_out.sorted)))
    /\ \A k \in 1..Len(pl_out.candidates) :
         /\ pl_out.candidates[k].hs6 \in CodesOf(pl_out.sorted)
         /\ pl_out.candidates[k] =
              candidate_of(pl_out.sorted[TopRankOf(pl_out.sorted, pl_out.candidates[k].hs6)][1],
                           pl_out.sorted[TopRankOf(pl_out.sorted, pl_out.candidates[k].hs6)][2],
                           pl_out.ebay_result, pl_out.ctx)
         /\ Cardinality(CodesAbove(pl_out.sorted,
                                   TopRankOf(pl_out.sorted, pl_out.candidates[k].hs6))) = k - 1

\* two rules with the same code are ranked above the third candidate, so the lower one was
\* passed over, and more than three distinct codes were ranked, so the list was cut
C17_Witness ==
  /\ pl_pc = "done"
  /\ Cardinality(CodesOf(pl_out.sorted)) > 3
  /\ Len(pl_out.candidates) = 3
  /\ \E i, j \in 1..Len(pl_out.sorted) :
       /\ i < j
       /\ pl_out.sorted[i][2].hs6 = pl_out.sorted[j][2].hs6
       /\ pl_out.sorted[i][2] # pl_out.sorted[j][2]
       /\ j < TopRankOf(pl_out.sorted, pl_out.candidates[3].hs6)

(***************************************************************************)
(* Confidence labels of the rule-based candidates.                         *)
(***************************************************************************)
\* the ranked entry (fused score, rule) a candidate was made from
RankedEntryOf(out, c) == out.sorted[TopRankOf(out.sorted, c.hs6)]

\* _score_rule's value for the rule of a ranked entry, as Step 2 listed it
RuleScoreOf(out, entry) ==
  out.scored[CHOOSE k \in 1..Len(out.scored) : out.scored[k][2] = entry[2]][1]

HasResolverResult(out) == out.ebay_result # None

Agrees(out, c) == HasResolverResult(out) /\ c.chapter = out.ebay_result[1]

\* C18: whenever the resolver produced a result with confidence >= 60, every returned
\* candidate whose chapter differs from the resolver's chapter has confidence low, whatever
\* its score.
C18_ContradictedIsLow ==
  pl_pc = "done" /\ HasResolverResult(pl_out) /\ pl_out.ebay_result[2] >= F(60) =>
    \A k \in 1..Len(pl_out.candidates) :
      ~Agrees(pl_out, pl_out.candidates[k]) => pl_out.candidates[k].confidence = "low"

\* a listed candidate of another chapter than the resolver's, whose fused score alone would
\* have earned medium or better, is low under a resolver confidence of 60 or more
C18_Witness ==
  /\ pl_pc = "done" /\ HasResolverResult(pl_out) /\ pl_out.ebay_result[2] >= F(60)
  /\ \E k \in 1..Len(pl_out.candidates) :
       /\ ~IsSentinel(pl_out.candidates[k])
       /\ ~Agrees(pl_out, pl_out.candidates[k])
       /\ RankedEntryOf(pl_out, pl_out.candidates[k])[1] >= F(2)
       /\ pl_out.candidates[k].confidence = "low"

\* C19: every returned candidate whose chapter equals the resolver's chapter is labelled from
\* the resolver confidence alone: high if it is >= 70, medium if >= 40, otherwise low, also
\* when the rule matched no keyword.
C19_AgreeingLabelFromResolver ==
  pl_pc = "done" /\ HasResolverResult(pl_out) =>
    \A k \in 1..Len(pl_out.candidates) :
      Agrees(pl_out, pl_out.candidates[k]) =>
        pl_out.candidates[k].confidence =
          IF pl_out.ebay_result[2] >= F(70) THEN "high"
          ELSE IF pl_out.ebay_result[2] >= F(40) THEN "medium"
          ELSE "low"

\* a rule of the resolver's chapter that scored 0 on the text is listed as medium under a
\* resolver confidence between 40 and 70
C19_Witness ==
  /\ pl_pc = "done" /\ HasResolverResult(pl_out)
  /\ pl_out.ebay_result[2] >= F(40) /\ pl_out.ebay_result[2] < F(70)
  /\ \E k \in 1..Len(pl_out.candidates) :
       /\ Agrees(pl_out, pl_out.candidates[k])
       /\ RuleScoreOf(pl_out, RankedEntryOf(pl_out, pl_out.candidates[k])) = 0
       /\ pl_out.candidates[k].confidence = "medium"

\* the label the chapter-aware thresholds give a score
ThresholdLabel(score, rule_ch, brand_ch) ==
  IF brand_ch = "Chapter 87" /\ rule_ch = "Chapter 87"
    THEN IF score >= F(5) THEN "high" ELSE IF score >= F(3) THEN "medium" ELSE "low"
  ELSE IF brand_ch # "" /\ brand_ch = rule_ch
    THEN IF score >= F(4) THEN "high" ELSE IF score >= F(2) THEN "medium" ELSE "low"
  ELSE IF score >= F(3) THEN "high" ELSE IF score >= F(2) THEN "medium" ELSE "low"

\* C20: when the resolver produced no result or one with confidence < 60, every candidate that
\* does not agree with the resolver's chapter is labelled from its rule's own Rule Scorer
\* score, the score before fusion, with the chapter-aware thresholds: automotive brand and
\* automotive rule high at >= 5.0 and medium at >= 3.0; other brand chapter equal to the
\* rule's chapter high at >= 4.0 and medium at >= 2.0; otherwise high at >= 3.0 and medium at
\* >= 2.0; low below the medium threshold.
C20_LabelFromRuleScore ==
  pl_pc = "done" /\ (~HasResolverResult(pl_out) \/ pl_out.ebay_result[2] < F(60)) =>
    \A k \in 1..Len(pl_out.candidates) :
      ~IsSentinel(pl_out.candidates[k]) /\ ~Agrees(pl_out, pl_out.candidates[k]) =>
        pl_out.candidates[k].confidence =
          ThresholdLabel(RuleScoreOf(pl_out, RankedEntryOf(pl_out, pl_out.candidates[k])),
                         pl_out.candidates[k].chapter, pl_out.ctx.brand_chapter)

(***************************************************************************)
(* Relevant-Grouping Selector.                                             *)
(***************************************************************************)
\* the text the selector searches: name, description, category path and attributes, lowered
SelectorText(req) ==
  str_lower(req.product_name \o " " \o req.description \o " " \o req.category_path)
    \o (IF req.item_specifics # << >>
          THEN " " \o str_lower(specifics_text(req.item_specifics, 1, << " ", " " >>))
          ELSE "")

\* (rule, keyword) pairs of chapter ch whose keyword occurs in the text
KeywordHits(text, ch) ==
  { p \in { << i, k >> : i \in 1..Len(CLASSIFICATION_RULES), k \in 1..64 } :
      /\ CLASSIFICATION_RULES[p[1]].chapter = ch
      /\ p[2] <= Len(CLASSIFICATION_RULES[p[1]].keywords)
      /\ str_in(str_lower(CLASSIFICATION_RULES[p[1]].keywords[p[2]]), text) }

\* brands of chapter ch mentioned in the text
BrandMentions(text, ch) ==
  { i \in 1..Len(_BRAND_CATEGORY) :
      _BRAND_CATEGORY[i][2] = ch /\ str_in(_BRAND_CATEGORY[i][1], text) }

\* category-path keywords that point to chapter ch and occur in the lowered category path
CategorySignals(path, ch) ==
  { i \in 1..Len(_CATEGORY_CHAPTER_MAP) :
      /\ ch \in SeqToSet(_CATEGORY_CHAPTER_MAP[i][2])
      /\ str_in(_CATEGORY_CHAPTER_MAP[i][1], path) }

AllChapters ==
  { CLASSIFICATION_RULES[i].chapter : i \in 1..Len(CLASSIFICATION_RULES) }
    \cup { _BRAND_CATEGORY[i][2] : i \in 1..Len(_BRAND_CATEGORY) }
    \cup UNION { SeqToSet(_CATEGORY_CHAPTER_MAP[i][2]) : i \in 1..Len(_CATEGORY_CHAPTER_MAP) }

\* chapter -> +1 per keyword hit, +3 per brand mention, +5 per category-path keyword
AccumulatedScores(text, path) ==
  [ ch \in AllChapters |->
      F(1) * Cardinality(KeywordHits(text, ch)) + F(3) * Cardinality(BrandMentions(text, ch))
        + F(5) * Cardinality(CategorySignals(path, ch)) ]

Signalled(score) == { ch \in DOMAIN score : score[ch] > 0 }

\* the selector's list against the scores of the chapters
IsShortlistFor(chapters, score) ==
  /\ Len(chapters) \in 1..5
  /\ \A m, n \in 1..Len(chapters) : m # n => chapters[m] # chapters[n]
  /\ IF Signalled(score) = {}
       THEN chapters = << "Chapter 85", "Chapter 61", "Chapter 84", "Chapter 42", "Chapter 87" >>
       ELSE /\ Len(chapters) = Min2(5, Cardinality(Signalled(score)))
            /\ \A n \in 1..Len(chapters) : chapters[n] \in Signalled(score)
            /\ \A n \in 1..(Len(chapters) - 1) : score[chapters[n]] >= score[chapters[n + 1]]
            /\ \A ch \in Signalled(score) \ SeqToSet(chapters) :
                 score[ch] <= score[chapters[Len(chapters)]]

\* C21: the selector returns between one and five distinct chapters; when no keyword, brand
\* or category signal is found it returns the fixed default shortlist of five chapters;
\* otherwise every returned chapter has a signal, the list is in non-increasing order of
\* accumulated score (+1 per keyword hit, +3 per brand mention, +5 per category-path keyword),
\* and no chapter left out has a higher score than a chapter returned.
C21_ShortlistOfChapters ==
  sc_pc = "done" =>
    IsShortlistFor(sc_out.chapters,
                   AccumulatedScores(SelectorText(sc_input), str_lower(sc_input.category_path)))

\* more than five chapters had a signal, five were returned, one of them on the category
\* path alone, and their scores are not all equal
HasCutShortlist(chapters, text, score) ==
  /\ Cardinality(Signalled(score)) > 5
  /\ Len(chapters) = 5
  /\ \E ch \in SeqToSet(chapters) : KeywordHits(text, ch) = {} /\ BrandMentions(text, ch) = {}
  /\ \E n \in 1..4 : score[chapters[n]] > score[chapters[n + 1]]

C21_Witness ==
  /\ sc_pc = "done"
  /\ HasCutShortlist(sc_out.chapters, SelectorText(sc_input),
                     AccumulatedScores(SelectorText(sc_input), str_lower(sc_input.category_path)))

(***************************************************************************)
(* The cached eBay application token.                                      *)
(***************************************************************************)
\* caller c returned the cached token, having found the cache valid at time hit_at
ReturnedFromCache(c) == tk_callers[c].pc = "returned" /\ tk_callers[c].hit_at >= 0

\* no caller stands between fetching a token and the end of its two cache writes
NoWriteInProgress == \A c \in TokenCallers : tk_callers[c].pc \notin { "write_token", "write_expires" }

\* C22: a caller of _get_ebay_oauth_token is handed the cached token only at a time before
\* the expiry recorded for that same token, under every interleaving of callers with another
\* caller's two cache writes; and once no write is in progress the cache holds a token paired
\* with the expiry recorded for it.
C22_CachedTokenWithinItsExpiry ==
  tk_callers # << >> =>
    /\ \A c \in TokenCallers :
         ReturnedFromCache(c) /\ tk_issued[tk_callers[c].ret].cached_expiry >= 0 =>
           tk_callers[c].hit_at < tk_issued[tk_callers[c].ret].cached_expiry
    /\ NoWriteInProgress /\ ebay_token # 0 =>
         ebay_token_expires = tk_issued[ebay_token].cached_expiry

(***************************************************************************)
(* The context the Rule Scorer receives.                                   *)
(***************************************************************************)
\* automotive vocabulary words occurring in the text
AutoWordsIn(text) == { w \in _AUTO_CONTEXT_WORDS : str_in(w, str_lower(text)) }

\* 5 for an automotive brand, 4 for a part number, 1.5 per automotive word of the text
SupportScore(ctx, text) ==
  (IF ctx.brand_chapter = "Chapter 87" THEN F(5) ELSE 0)
    + (IF ctx.has_part_number THEN F(4) ELSE 0)
    + 15000 * Cardinality(AutoWordsIn(text))

\* C23: the context handed to the Rule Scorer has an automotive support score of 5 (detected
\* brand's chapter automotive) + 4 (part-number pattern present) + 1.5 x the number of
\* automotive vocabulary words occurring in the text the caller supplied (product name and
\* description), and is-automotive is true exactly when that score is >= 3.0.
C23_ContextFromSuppliedText ==
  pl_pc = "done" =>
    /\ pl_out.ctx.auto_boost =
         SupportScore(pl_out.ctx, pl_request.product_name \o " " \o pl_request.description)
    /\ pl_out.ctx.is_auto <=>
         SupportScore(pl_out.ctx, pl_request.product_name \o " " \o pl_request.description) >= F(3)

(***************************************************************************)
(* The points of a matched keyword.                                        *)
(***************************************************************************)
\* the co-occurrence entries registered for a keyword, none when it is not polysemous
RegisteredEntries(kw) == IF HasWord(_PHRASE_CONTEXT, kw) THEN EntriesOf(_PHRASE_CONTEXT, kw) ELSE << >>

CoWordHits(entry, text) == Cardinality({ cw \in entry.co_words : str_in(cw, text) })

\* the entries with at least one co-occurring word in the text, in table order
EntriesWithHit(kw, text) == SelectSeq(RegisteredEntries(kw), LAMBDA e : CoWordHits(e, text) > 0)

CappedBoost(entry, text) == entry.base_boost * Min2(CoWordHits(entry, text), 3)

\* the first of the entries with the highest boost
HighestBoostEntry(entries, text) ==
  entries[CHOOSE i \in 1..Len(entries) :
            /\ \A j \in 1..Len(entries) : CappedBoost(entries[j], text) <= CappedBoost(entries[i], text)
            /\ \A j \in 1..(i - 1) : CappedBoost(entries[j], text) < CappedBoost(entries[i], text)]

\* the one amount a matched keyword adds
PointsOfKeyword(kw, text, rule_chapter, is_auto) ==
  IF EntriesWithHit(kw, text) # << >>
    THEN IF HighestBoostEntry(EntriesWithHit(kw, text), text).target_chapter = rule_chapter
           THEN F(1) + CappedBoost(HighestBoostEntry(EntriesWithHit(kw, text), text), text)
           ELSE 500
  ELSE IF RegisteredEntries(kw) # << >> /\ is_auto /\ rule_chapter # "Chapter 87"
    THEN 1000
  ELSE F(1)

RECURSIVE SumOfPoints(_, _, _, _)
\* the amounts of the matched keywords k..last of the rule
SumOfPoints(rule, text, is_auto, k) ==
  IF k > Len(rule.keywords) THEN 0
  ELSE (IF kp_out.calls[k].matched
          THEN PointsOfKeyword(str_lower(rule.keywords[k]), text, rule.chapter, is_auto)
          ELSE 0)
       + SumOfPoints(rule, text, is_auto, k + 1)

\* C24: the keyword loop adds for each matched keyword exactly one of: 1.0 + b when the
\* keyword has a co-occurrence entry with a hit and the entry of highest boost (b = base boost
\* x min(hit count, 3); the first such entry on a tie) targets the rule's chapter; 0.05 when
\* that entry targets another chapter; 0.1 when the keyword is polysemous without any hit, the
\* context is automotive and the rule is not of Chapter 87; 1.0 otherwise.  The Phrase
\* Disambiguator returns the empty list exactly when the keyword has no registered entry or no
\* co-occurrence word is in the text, and otherwise one (target, capped boost) per entry hit.
C24_OneAmountPerMatchedKeyword ==
  kp_pc = "done" =>
    /\ kp_out.score = SumOfPoints(kp_input.rule, str_lower(kp_input.text), kp_input.is_auto, 1)
    /\ \A k \in 1..Len(kp_input.rule.keywords) :
         kp_out.calls[k].matched =>
           /\ kp_out.calls[k].phrase_results = << >> <=>
                EntriesWithHit(str_lower(kp_input.rule.keywords[k]), str_lower(kp_input.text)) = << >>
           /\ Len(kp_out.calls[k].phrase_results) =
                Len(EntriesWithHit(str_lower(kp_input.rule.keywords[k]), str_lower(kp_input.text)))
           /\ \A n \in 1..Len(kp_out.calls[k].phrase_results) :
                kp_out.calls[k].phrase_results[n] =
                  << EntriesWithHit(str_lower(kp_input.rule.keywords[k]),
                                    str_lower(kp_input.text))[n].target_chapter,
                     CappedBoost(EntriesWithHit(str_lower(kp_input.rule.keywords[k]),
                                                str_lower(kp_input.text))[n],
                                 str_lower(kp_input.text)) >>

\* 'cover' with five co-occurring words of the bag chapter scored 1.0 + 3.0 x 3 for the bag
\* rule, next to plain keywords at 1.0
C24_Witness ==
  /\ kp_pc = "done"
  /\ kp_input.rule.hs6 = "4202.99"
  /\ kp_input.text = "phone cover for ipad tablet smartphone iphone"
  /\ \E k \in 1..Len(kp_input.rule.keywords) :
       /\ kp_input.rule.keywords[k] = "cover"
       /\ kp_out.calls[k].matched
       /\ kp_out.calls[k].phrase_results = << << "Chapter 42", F(9) >> >>
  /\ kp_out.score >= F(10)

(***************************************************************************)
(* Resolver result and sentinel.                                           *)
(***************************************************************************)
\* C25: without arbitrator, whenever the resolver produced a result the returned list has a
\* candidate of a chapter other than 'N/A', and the sentinel is returned only when the
\* resolver produced nothing and no rule scored above zero.
C25_ResolverResultGivesCandidate ==
  pl_pc = "done" =>
    /\ HasResolverResult(pl_out) =>
         \E k \in 1..Len(pl_out.candidates) : pl_out.candidates[k].chapter # "N/A"
    /\ (\E k \in 1..Len(pl_out.candidates) : IsSentinel(pl_out.candidates[k])) =>
         /\ ~HasResolverResult(pl_out)
         /\ \A i \in 1..Len(pl_out.scores) : pl_out.scores[i] <= 0

(***************************************************************************)
(* The page and the history table.                                         *)
(***************************************************************************)
\* row carries the three codes and the reason of cand, the label given, and the product
\* name and URL of run
RowCarries(row, run, cand, label) ==
  /\ row.hs6 = cand.hs6 /\ row.hts = cand.hts /\ row.jp_hs = cand.jp_hs
  /\ row.reason = cand.reason
  /\ row.confidence = label
  /\ row.product_name = run.product_name /\ row.url = run.url

\* after has exactly one row more than before, at the end
OneRowAdded(before, after) ==
  Len(after) = Len(before) + 1 /\ SubSeq(after, 1, Len(before)) = before

\* C26: a run that classifies writes its first candidate to the history in that run exactly
\* when that candidate is not low or is the only one, a run writes nothing otherwise, and
\* every adoption writes exactly one row: the adopted candidate's three codes and reason,
\* confidence "manual", and the product name and URL of the run whose candidates are shown.
C26_SavedInRunOrOnAdoption ==
  [][ /\ (ui_last'.kind = "run" /\ ui_last'.classified # None) =>
           IF st_results'[1].confidence # "low" \/ Len(st_results') = 1
             THEN /\ OneRowAdded(history, history')
                  /\ RowCarries(history'[Len(history')], ui_shown_run', st_results'[1],
                                st_results'[1].confidence)
             ELSE history' = history
      /\ (ui_last'.kind = "run" /\ ui_last'.classified = None) => history' = history
      /\ ui_last'.kind = "adopt" =>
           /\ OneRowAdded(history, history')
           /\ RowCarries(history'[Len(history')], ui_shown_run,
                         st_results[ui_last'.idx + 1], "manual")
    ]_vars

\* two candidates of one low list adopted one after the other, for a product named by the
\* page that was fetched
C26_Witness ==
  /\ ui_last.kind = "adopt"
  /\ Len(history) = 2
  /\ history[1].confidence = "manual" /\ history[2].confidence = "manual"
  /\ history[1].hs6 # history[2].hs6
  /\ ui_shown_run.url # ""
  /\ history[2].product_name = ui_shown_run.product_name

\* the last run fetched an eBay URL, the API failed and the scraping fallback gave a record
\* with a title
FallbackSucceeded ==
  /\ ui_last.kind = "run" /\ ui_last.input_url # "" /\ _is_ebay_url(ui_last.input_url)
  /\ st_scraped_info.source = "scraping" /\ st_scraped_info._api_error # ""

\* the last run fetched a URL and every stage failed
EveryStageFailed ==
  /\ ui_last.kind = "run" /\ ui_last.input_url # ""
  /\ st_scraped_info.error # ""

\* C27: when the eBay API fails and the scraping fallback succeeds with a title,
\* fetch_product_info returns the scraped record with the API error noted on it, and the
\* run classifies with that record's title (when the user entered no name) and its
\* description; when every stage fails and the user entered a name, the run classifies
\* the name and description the user entered.
C27_FallbackDataIsUsed ==
  /\ \A i \in UiInputs :
       (/\ _is_ebay_url(i.input_url) /\ i.token /\ i.api_result.error # ""
        /\ i.scrape_result.error = "" /\ i.scrape_result.title # "")
         => info_of_run(i) = [ i.scrape_result EXCEPT !._api_error = i.api_result.error ]
  /\ FallbackSucceeded =>
       /\ ui_last.classified # None
       /\ ui_last.classified.product_name =
            (IF ui_last.input_name # "" THEN ui_last.input_name ELSE st_scraped_info.title)
       /\ st_scraped_info.description # "" =>
            str_in(st_scraped_info.description, ui_last.classified.description)
  /\ (EveryStageFailed /\ ui_last.input_name # "") =>
       /\ ui_last.classified # None
       /\ ui_last.classified.product_name = ui_last.input_name
       /\ ui_last.classified.description = ui_last.input_desc

\* C29: every row of edit_log names a row of history that exists, and a call of
\* update_history_field with a field outside hs6, hts, jp_hs, confidence, reason changes
\* neither table.
C29_EditLogRefersToHistory ==
  /\ \A n \in 1..Len(edit_log) :
       \E k \in 1..Len(history) : history[k].id = edit_log[n].history_id
  /\ \A row_id \in 1..MaxRowId, field \in EditFields \ ALLOWED_FIELDS, new_value \in NewValues :
       \E db \in { update_history_field(history, edit_log, sqlite_sequence, row_id, field,
                                        "", new_value) } :
         db.history = history /\ db.edit_log = edit_log

(***************************************************************************)
(* The management PIN.                                                     *)
(***************************************************************************)
\* a key the user entered is present: in the session (from the browser) or in app_settings
UserKeyPresent(ls_key, db_key, ls_pair, db_pair) ==
  ls_key # "" \/ db_key # "" \/ ls_pair # "" \/ db_pair # ""

\* C28: while a PIN is stored, a key the user entered disappears only in a disconnect
\* given a PIN whose SHA-256 is the stored value; a disconnect given another PIN leaves the
\* keys, the PIN and the cached token as they were; and the PIN is cleared only by a
\* disconnect that succeeds and leaves no key the user entered.
C28_PinGuardsKeys ==
  [][ ls_settings_pin # "" =>
        /\ (\/ (ls_anthropic_api_key # "" /\ ls_anthropic_api_key' = "")
            \/ (db_anthropic_api_key # "" /\ db_anthropic_api_key' = "")
            \/ (ls_ebay_client # "" /\ ls_ebay_client' = "")
            \/ (db_ebay_client # "" /\ db_ebay_client' = ""))
             => /\ pin_last'.kind \in { "disconnect_ebay", "disconnect_claude" }
                /\ sha256_hexdigest(pin_last'.pin) = ls_settings_pin
        /\ (/\ pin_last'.kind \in { "disconnect_ebay", "disconnect_claude" }
            /\ sha256_hexdigest(pin_last'.pin) # ls_settings_pin)
             => UNCHANGED << ls_anthropic_api_key, db_anthropic_api_key, ls_ebay_client,
                             db_ebay_client, ls_settings_pin, ebay_token, ebay_token_expires >>
        /\ ls_settings_pin' = ""
             => /\ pin_last'.kind \in { "disconnect_ebay", "disconnect_claude" }
                /\ sha256_hexdigest(pin_last'.pin) = ls_settings_pin
                /\ ~ UserKeyPresent(ls_anthropic_api_key', db_anthropic_api_key',
                                    ls_ebay_client', db_ebay_client')
    ]_vars

(***************************************************************************)
(* Labels along the ranking.                                               *)
(***************************************************************************)
LevelOf(label) == IF label = "high" THEN 3 ELSE IF label = "medium" THEN 2 ELSE 1

\* C30: in every list the rule-based pipeline returns, no candidate has a higher label
\* (high > medium > low) than a candidate ranked above it.
C30_LabelsFallAlongRanking ==
  pl_pc = "done" =>
    \A i \in 1..Len(pl_out.candidates), j \in 1..Len(pl_out.candidates) :
      i < j => LevelOf(pl_out.candidates[i].confidence) >= LevelOf(pl_out.candidates[j].confidence)
=============================================================================
